---------------------------- MODULE Spec2Model ----------------------------
(***************************************************************************)
(* Value log and write-ahead log of badger (src/value.go).                 *)
(*                                                                         *)
(* A log file on disk is modelled as the sequence of the records appended  *)
(* to it plus its size in bytes; a record keeps the decoded header fields, *)
(* the key (user key and commit timestamp), the value and whether the      *)
(* stored CRC matches the stored bytes.  Record offsets are byte offsets:  *)
(* the first record starts at lfHeaderSize, the next one hlen+klen+vlen+4  *)
(* bytes later.  uint32 arithmetic is done modulo 2^U32Bits.               *)
(***************************************************************************)
EXTENDS Integers, Naturals, Sequences, FiniteSets, TLC

(***************************************************************************)
(* Program constants.                                                      *)
(***************************************************************************)
lfHeaderSize == 20
\* The capacity of walCleaner.delChan.
delChanSize == 10
crc32Size == 4
maxHeaderSize == 21
\* Key length must be below uint16 (safeRead.Entry): 1 << 16.
maxKeyLen == 65536

bitDelete == "bitDelete"
bitValuePointer == "bitValuePointer"
bitTxn == "bitTxn"
bitFinTxn == "bitFinTxn"

vlogFile == "vlog"
walFile == "wal"
fileTypes == {vlogFile, walFile}

FileIO == "FileIO"
MemoryMap == "MemoryMap"

(***************************************************************************)
(* Bounds of the model.                                                    *)
(***************************************************************************)
\* Width of the scaled-down uint32 (offsets, lengths, file sizes).
U32Bits == 8
\* Most records of a WAL file that is replayed.
MaxRecs == 3
\* Largest commit timestamp of a replayed record (0 included).
MaxTs == 1

\* Most calls of write in a run, most requests of a batch, most entries of
\* a request besides its commit marker.
MaxWrites == 2
MaxReqs == 2
MaxEntriesPerReq == 2
\* Segment sizes (opt.ValueLogFileSize) and entry limits
\* (opt.ValueLogMaxEntries) the database is opened with.
SmallSegment == 64
LargeSegment == 200
FewEntries == 2
ManyEntries == 100
\* opt.ValueThreshold and the value lengths of the entries written.
ValueThreshold == 32
VSmall == 3
VMid == 40
VBig == 160
\* The user keys of the LSM tree, its largest commit timestamp and the
\* latest time of its clock.
NumKeys == 1
MaxLsmTs == 3
MaxNow == 1
\* Number of concurrent readers, and most iterators open at a time.
NumReaders == 1
MaxIterators == 1
\* Most calls of decrIteratorCount that have brought the count to zero and
\* have not yet taken the files to be deleted.
MaxZeroed == 1
\* Most calls of runGC; most transactions of the user while two callers run
\* the GC and while one caller runs it again and again; most iterators
\* open at a time while the GC runs; the largest discard count of a file.
MaxGcCalls == 2
MaxGcWrites == 1
MaxMoveWrites == 2
MaxGcIterators == 2
MaxDiscard == 1
\* Most files with discard statistics at a time.
MaxStatFiles == 1

RECURSIVE Pow2(_)
Pow2(n) == IF n = 0 THEN 1 ELSE 2 * Pow2(n - 1)
U32Mod == Pow2(U32Bits)
\* maxVlogFileSize = math.MaxUint32
maxVlogFileSize == U32Mod - 1
\* uint32(x): the conversion keeps the low bits.
U32(x) == x % U32Mod

Min(a, b) == IF a < b THEN a ELSE b
Max(a, b) == IF a < b THEN b ELSE a

\* The largest element of a set of fids, 0 for the empty set.
MaxOf(S) == IF S = {} THEN 0 ELSE CHOOSE x \in S : \A y \in S : y <= x

RECURSIVE SeqSum(_)
SeqSum(s) == IF s = <<>> THEN 0 ELSE Head(s) + SeqSum(Tail(s))

(***************************************************************************)
(* Values.  A value is either the decimal rendering of a number (what a    *)
(* commit marker carries) or opaque bytes.                                 *)
(***************************************************************************)
DecValue(n) == [kind |-> "dec", n |-> n]
BytesValue(id) == [kind |-> "bytes", id |-> id]
\* strconv.ParseUint(string(e.Value), 10, 64)
ParseUintOk(v) == v.kind = "dec"
ParseUint(v) == v.n

(***************************************************************************)
(* Header encoding (structs.go, not part of src/): two bytes for meta and  *)
(* user meta, then klen, vlen and expiresAt as unsigned varints.           *)
(***************************************************************************)
VarintLen(x) == IF x < 128 THEN 1 ELSE IF x < 16384 THEN 2 ELSE 3
HeaderLen(klen, vlen, expiresAt) ==
    2 + VarintLen(klen) + VarintLen(vlen) + VarintLen(expiresAt)

(***************************************************************************)
(* Entries and records.                                                    *)
(***************************************************************************)
Entry(key, ts, klen, value, vlen, meta, skipVlog) ==
    [key |-> key, ts |-> ts, klen |-> klen, value |-> value, vlen |-> vlen,
     meta |-> meta, skipVlog |-> skipVlog]

\* y.ParseTs(key): the commit timestamp in the key's last 8 bytes.
ParseTs(e) == e.ts

\* encodeEntry that clears the transaction bits of every record it encodes.
encodeEntryClearsTxnBits(e, offset) ==
    [hlen |-> HeaderLen(e.klen, e.vlen, 0), klen |-> e.klen, vlen |-> e.vlen,
     meta |-> e.meta \ {bitTxn, bitFinTxn}, key |-> e.key, ts |-> e.ts,
     value |-> e.value, crcOk |-> TRUE]

\* logFile.encodeEntry: header | key | value | crc32.  The CRC is computed
\* over the bytes written, so it matches them.
encodeEntry(e, offset) ==
    [hlen |-> HeaderLen(e.klen, e.vlen, 0), klen |-> e.klen, vlen |-> e.vlen,
     meta |-> e.meta, key |-> e.key, ts |-> e.ts, value |-> e.value,
     crcOk |-> TRUE]

\* The length encodeEntry returns, and the length iterate computes.
RecLen(r) == r.hlen + r.klen + r.vlen + crc32Size

RECURSIVE BytesLen(_)
BytesLen(recs) == IF recs = <<>> THEN 0 ELSE RecLen(Head(recs)) + BytesLen(Tail(recs))

\* Byte offset at which record i of a file starts.
RecOff(recs, i) == lfHeaderSize + BytesLen(SubSeq(recs, 1, i - 1))
\* Byte offset just after record i.
RecEnd(recs, i) == lfHeaderSize + BytesLen(SubSeq(recs, 1, i))

\* The record of a file that starts at a byte offset, 0 when there is none.
RecAt(recs, off) ==
    IF \E i \in 1..Len(recs) : RecOff(recs, i) = off
    THEN CHOOSE i \in 1..Len(recs) : RecOff(recs, i) = off
    ELSE 0

File(recs, size) == [recs |-> recs, size |-> size]

(***************************************************************************)
(* State.                                                                  *)
(***************************************************************************)
VARIABLES
    opt,        \* vlog.opt: the options the database was opened with
    disk,       \* the directory: disk[ft][fid] is the file of type ft and id fid
    lw,         \* lw[ft]: the logWrapper of each file type (vlog.vlog, vlog.wal)
    vhead,      \* the value pointer persisted as head: replay resumes after it
    op,         \* valueLog.open: position in the replay loop and its result
    replayed,   \* the (entry, value pointer) pairs handed to replayFn, in order
    disk0,      \* the directory as it was when the database was opened
    wr,         \* valueLog.write: its locals (reqs, buffers, current files)
    hist,       \* what write was given and what it has returned so far
    locks,      \* holders of logFile.lock and of logWrapper.filesLock
    rd,         \* valueLog.Read: the position and result of each reader
    bg,         \* iterators, GC rewrite, dropAll and Close: files in their hands
    lsm,        \* the LSM tree as the value log sees it through db.get
    gc,         \* garbageCh, the callers of runGC, waitOnGC, lfDiscardStats.m
    wc          \* the WAL cleaner: its channel, its closer and its position

diskVars == <<opt, disk, lw, vhead>>
replayVars == <<op, replayed, disk0>>
writeVars == <<wr, hist>>
readVars == <<locks, rd, bg>>
gcVars == <<lsm, gc, wc>>
vars == <<opt, disk, lw, vhead, op, replayed, disk0, wr, hist, locks, rd, bg,
          lsm, gc, wc>>

\* The options of the database that the value log reads.
Options(truncate, readOnly, fileSize, maxEntries, threshold, mode, verify) ==
    [Truncate |-> truncate, ReadOnly |-> readOnly,
     ValueLogFileSize |-> fileSize, ValueLogMaxEntries |-> maxEntries,
     ValueThreshold |-> threshold, ValueLogLoadingMode |-> mode,
     VerifyValueChecksum |-> verify, SyncWrites |-> FALSE]

(***************************************************************************)
(* Reading one record back (safeRead.Entry) and the replay loop            *)
(* (valueLog.iterate).                                                     *)
(***************************************************************************)
\* safeRead.Entry succeeds on the record at recordOffset: the header, key,
\* value and CRC are all inside the file, the key length is at most 1<<16
\* and the stored CRC matches.  Every failure here is io.EOF,
\* io.ErrUnexpectedEOF or errTruncate, and ends the loop.
safeReadEntryOk(f, recordOffset) ==
    LET i == RecAt(f.recs, recordOffset) IN
    /\ i # 0
    /\ recordOffset + RecLen(f.recs[i]) <= f.size
    /\ ~(f.recs[i].klen > maxKeyLen)
    /\ f.recs[i].crcOk

\* txnFraming with the TXN case accounting the record as valid data.
txnFramingTxnAdvances(e, lastCommit, recordOffset, validEndOffset) ==
    IF bitTxn \in e.meta
    THEN [stop |-> FALSE, lastCommit |-> ParseTs(e),
          validEndOffset |-> recordOffset]
    ELSE IF bitFinTxn \in e.meta
    THEN [stop |-> ~ParseUintOk(e.value) \/ lastCommit # ParseUint(e.value),
          lastCommit |-> 0, validEndOffset |-> recordOffset]
    ELSE [stop |-> lastCommit # 0, lastCommit |-> 0,
          validEndOffset |-> recordOffset]

\* txnFraming without the break on a commit marker that does not match.
txnFramingNoBreakOnFin(e, lastCommit, recordOffset, validEndOffset) ==
    IF bitTxn \in e.meta
    THEN LET lc == IF lastCommit = 0 THEN ParseTs(e) ELSE lastCommit
         IN [stop |-> lc # ParseTs(e), lastCommit |-> lc,
             validEndOffset |-> validEndOffset]
    ELSE IF bitFinTxn \in e.meta
    THEN IF ~ParseUintOk(e.value) \/ lastCommit # ParseUint(e.value)
         THEN [stop |-> FALSE, lastCommit |-> lastCommit,
               validEndOffset |-> validEndOffset]
         ELSE [stop |-> FALSE, lastCommit |-> 0,
               validEndOffset |-> recordOffset]
    ELSE IF lastCommit # 0
         THEN [stop |-> TRUE, lastCommit |-> lastCommit,
               validEndOffset |-> validEndOffset]
         ELSE [stop |-> FALSE, lastCommit |-> 0,
               validEndOffset |-> recordOffset]

\* txnFraming that accepts a record without transaction bit in the middle
\* of a transaction.
txnFramingPlainAdvances(e, lastCommit, recordOffset, validEndOffset) ==
    IF bitTxn \in e.meta
    THEN LET lc == IF lastCommit = 0 THEN ParseTs(e) ELSE lastCommit
         IN [stop |-> lc # ParseTs(e), lastCommit |-> lc,
             validEndOffset |-> validEndOffset]
    ELSE IF bitFinTxn \in e.meta
    THEN IF ~ParseUintOk(e.value) \/ lastCommit # ParseUint(e.value)
         THEN [stop |-> TRUE, lastCommit |-> lastCommit,
               validEndOffset |-> validEndOffset]
         ELSE [stop |-> FALSE, lastCommit |-> 0,
               validEndOffset |-> recordOffset]
    ELSE [stop |-> FALSE, lastCommit |-> 0, validEndOffset |-> recordOffset]

\* The switch on the transaction bits of iterate.  Returns whether the loop
\* stops here, and the new lastCommit and validEndOffset (recordOffset is
\* already the offset after the record).
txnFraming(e, lastCommit, recordOffset, validEndOffset) ==
    LET stopHere == [stop |-> TRUE, lastCommit |-> lastCommit,
                     validEndOffset |-> validEndOffset]
        advance == [stop |-> FALSE, lastCommit |-> 0,
                    validEndOffset |-> recordOffset]
    IN IF bitTxn \in e.meta
       THEN LET txnTs == ParseTs(e)
                lc == IF lastCommit = 0 THEN txnTs ELSE lastCommit
            IN [stop |-> lc # txnTs, lastCommit |-> lc,
                validEndOffset |-> validEndOffset]
       ELSE IF bitFinTxn \in e.meta
       THEN IF ~ParseUintOk(e.value) \/ lastCommit # ParseUint(e.value)
            THEN stopHere ELSE advance
       ELSE IF lastCommit # 0 THEN stopHere ELSE advance

\* What iterate hands to fn for the record read at offset off of file fid.
Invocation(fid, r, off) ==
    [fid |-> fid, offset |-> off, len |-> U32(RecLen(r)), meta |-> r.meta,
     key |-> r.key, ts |-> r.ts, value |-> r.value]

\* One turn of the loop of iterate: read an entry, account for it, call fn.
\* st = [recordOffset, lastCommit, validEndOffset, invoked].
RECURSIVE iterateLoop(_, _, _)
iterateLoop(fid, f, st) ==
    IF ~safeReadEntryOk(f, st.recordOffset) THEN st
    ELSE LET r == f.recs[RecAt(f.recs, st.recordOffset)]
             next == U32(st.recordOffset + U32(RecLen(r)))
             fr == txnFraming(r, st.lastCommit, next, st.validEndOffset)
         IN IF fr.stop THEN st
            ELSE iterateLoop(fid, f,
                    [recordOffset |-> next, lastCommit |-> fr.lastCommit,
                     validEndOffset |-> fr.validEndOffset,
                     invoked |-> Append(st.invoked,
                                        Invocation(fid, r, st.recordOffset))])

\* valueLog.iterate(lf, offset, fn) with an fn that returns nil.
\* Returns [endOffset, err, invoked].
iterate(fid, f, offset, readOnly) ==
    LET off == IF offset = 0 THEN lfHeaderSize ELSE offset IN
    IF off = f.size THEN [endOffset |-> off, err |-> "nil", invoked |-> <<>>]
    ELSE IF readOnly
    THEN [endOffset |-> 0, err |-> "ErrReplayNeeded", invoked |-> <<>>]
    ELSE LET st == iterateLoop(fid, f,
                     [recordOffset |-> off, lastCommit |-> 0,
                      validEndOffset |-> off, invoked |-> <<>>])
         IN [endOffset |-> st.validEndOffset, err |-> "nil",
             invoked |-> st.invoked]

(***************************************************************************)
(* Files: bootstrap, truncate.                                             *)
(***************************************************************************)
\* logFile.bootstrap: truncate to 0 and write the 20-byte header.
bootstrap == File(<<>>, lfHeaderSize)

\* fd.Truncate(size): the records that end at or before size survive.
RECURSIVE KeepUpTo(_, _, _)
KeepUpTo(recs, start, size) ==
    IF recs = <<>> \/ start + RecLen(Head(recs)) > size THEN <<>>
    ELSE <<Head(recs)>> \o KeepUpTo(Tail(recs), start + RecLen(Head(recs)), size)
Truncate(f, size) == File(KeepUpTo(f.recs, lfHeaderSize, size), size)

\* replayLog that reports every file cut back to its header for deletion,
\* the last one included.
replayLogDeletesLast(fid, f, offset, maxFid) ==
    LET it == iterate(fid, f, offset, opt.ReadOnly)
        out(err, file) == [err |-> err, file |-> file, invoked |-> it.invoked,
                           endOffset |-> it.endOffset]
    IN IF it.err # "nil" THEN out(it.err, f)
       ELSE IF it.endOffset = f.size THEN out("nil", f)
       ELSE IF ~opt.Truncate THEN out("ErrTruncateNeeded", f)
       ELSE IF it.endOffset <= lfHeaderSize THEN out("errDeleteVlogFile", f)
       ELSE out("nil", Truncate(f, it.endOffset))

\* valueLog.replayLog(lf, offset, replayFn).
\* Returns [err, file, invoked, endOffset].
replayLog(fid, f, offset, maxFid) ==
    LET it == iterate(fid, f, offset, opt.ReadOnly)
        out(err, file) == [err |-> err, file |-> file, invoked |-> it.invoked,
                           endOffset |-> it.endOffset]
    IN IF it.err # "nil" THEN out(it.err, f)
       ELSE IF it.endOffset = f.size THEN out("nil", f)
       ELSE IF ~opt.Truncate THEN out("ErrTruncateNeeded", f)
       ELSE IF it.endOffset <= lfHeaderSize
            THEN IF fid # maxFid THEN out("errDeleteVlogFile", f)
                 ELSE out("nil", bootstrap)
       ELSE out("nil", Truncate(f, it.endOffset))

(***************************************************************************)
(* Log wrappers and log files in memory.                                   *)
(***************************************************************************)
\* A logFile: its fid, lf.size, the length of lf.fmap (0: not mapped) and
\* whether its descriptor is open.
LogFile(fid, size, fmapLen) ==
    [fid |-> fid, size |-> size, fmapLen |-> fmapLen, fd |-> "open"]

NoFiles == [x \in {} |-> 0]

LogWrapper(filesMap, maxFid, writableOffset) ==
    [filesMap |-> filesMap, maxFid |-> maxFid,
     writableOffset |-> writableOffset, numEntriesWritten |-> 0,
     numActiveIterators |-> 0, filesToBeDeleted |-> <<>>]

RemoveKey(f, k) == [x \in DOMAIN f \ {k} |-> f[x]]
PutKey(f, k, v) == [x \in DOMAIN f \cup {k} |-> IF x = k THEN v ELSE f[x]]

\* logWrapper.sortedFids: the fids not pending deletion, ascending.
RECURSIVE SortedSeq(_)
SortedSeq(S) ==
    IF S = {} THEN <<>>
    ELSE LET m == CHOOSE x \in S : \A y \in S : x <= y
         IN <<m>> \o SortedSeq(S \ {m})
SeqRange(s) == {s[i] : i \in 1..Len(s)}
\* The pairs of a set in ascending order.
RECURSIVE SortedPairs(_)
SortedPairs(S) ==
    IF S = {} THEN <<>>
    ELSE LET least == CHOOSE x \in S :
                         \A y \in S : x[1] < y[1] \/ (x[1] = y[1] /\ x[2] <= y[2])
         IN <<least>> \o SortedPairs(S \ {least})
sortedFids(w) == SortedSeq(DOMAIN w.filesMap \ SeqRange(w.filesToBeDeleted))

(***************************************************************************)
(* The parts of the state that are at rest.                                *)
(***************************************************************************)
HistEmpty ==
    [nwrites |-> 0, nextTs |-> 1, result |-> "none",
     before |-> [disk |-> <<>>, lw |-> <<>>, reqs |-> <<>>],
     done |-> <<>>, placed |-> [ft \in fileTypes |-> <<>>], io |-> <<>>,
     trace |-> FALSE, reopened |-> FALSE]
\* The same, with the calls of write on files and directory recorded in io.
HistTraced == [HistEmpty EXCEPT !.trace = TRUE]
NoLocks == [lf |-> {}, files |-> [ft \in fileTypes |-> {}]]
ReaderNames == <<"reader1", "reader2", "reader3">>
Readers == {ReaderNames[i] : i \in 1..NumReaders}
ReaderIdle == [pc |-> "idle"]
\* Nothing in the background: no file is detached from the file map, none is
\* waiting for deleteLogFile, none has been removed, dropAll and Close are
\* not running.  rewritten holds the fids whose file rewrite has finished
\* with and deleteLogFile has not yet removed.
BgIdle ==
    [state |-> "open", detached |-> NoFiles, deleting |-> {}, removed |-> {},
     todo |-> {}, zeroed |-> 0, rewritten |-> {}]

\* An LSM tree without keys; nobody in runGC, garbageCh empty, no discard
\* statistics; the WAL cleaner waiting on its empty channel.
LsmEmpty ==
    [kv |-> [x \in {} |-> 0], now |-> 0, nextTs |-> 1, recs |-> {},
     obs |-> {}, last |-> <<>>, applied |-> 0]
GcTasks == {"gc1", "gc2"}
GcTaskIdle ==
    [pc |-> "idle", busy |-> FALSE, files |-> <<>>, i |-> 0, fid |-> 0,
     wb |-> <<>>, after |-> "none", res |-> "none", had |-> FALSE]
GcIdle ==
    [writes |-> 0, garbageCh |-> 0, shut |-> "no", calls |-> 0, rewrote |-> {},
     task |-> [g \in GcTasks |-> GcTaskIdle], stats |-> [x \in {} |-> 0]]
WcIdle ==
    [closed |-> FALSE, signalled |-> FALSE, delChan |-> <<>>, pc |-> "select",
     hFid |-> 0, fids |-> <<>>, log |-> <<>>]

(***************************************************************************)
(* Locks.  An element <<ft, fid, who, mode>> of locks.lf says that who      *)
(* holds the lock of the logFile fid of type ft, shared ("R") or exclusive *)
(* ("W"); locks.files[ft] is the same for logWrapper.filesLock.            *)
(***************************************************************************)
Holders(ft, fid) == {h \in locks.lf : h[1] = ft /\ h[2] = fid}
\* lf.lock.Lock() that does not wait for the readers.
CanLockOverReaders(ft, fid) == \A h \in Holders(ft, fid) : h[4] = "R"
\* lf.lock.Lock() returns: nobody holds the lock.
CanLock(ft, fid) == Holders(ft, fid) = {}
\* lf.lock.RLock() returns: nobody holds the lock exclusively.
CanRLock(ft, fid) == \A h \in Holders(ft, fid) : h[4] = "R"
\* filesLock.Lock() and filesLock.RLock() return.
CanLockFiles(ft) == locks.files[ft] = {}
CanRLockFiles(ft) == \A h \in locks.files[ft] : h[2] = "R"

\* The loading mode of a logFile: WAL files are always opened with FileIO.
LoadingMode(ft) == IF ft = walFile THEN FileIO ELSE opt.ValueLogLoadingMode

\* logFile.mmap(size) and logFile.munmap().
mmap(lf, ft, size) ==
    IF LoadingMode(ft) # MemoryMap \/ ft = walFile THEN lf
    ELSE [lf EXCEPT !.fmapLen = size]
munmap(lf, ft) ==
    IF LoadingMode(ft) # MemoryMap \/ lf.fmapLen = 0 THEN lf
    ELSE [lf EXCEPT !.fmapLen = 0]

\* logFile.init: take the size from the file and map all of it.
init(lf, ft, f) ==
    IF f.size = 0 THEN lf
    ELSE mmap([lf EXCEPT !.size = U32(f.size)], ft, f.size)

(***************************************************************************)
(* Creating and rotating files.  These operators take and return a record  *)
(* s that holds the directory (s.disk), the two log wrappers (s.lw) and    *)
(* the failed assertion, if any (s.panic).                                 *)
(***************************************************************************)
nilFile == -1

\* The calls on files and on the directory, in their order, are kept in
\* s.io: <<call, file type, fid, outcome>>.  s.fail names the call that
\* fails (none: "none") and s.err the call that has failed (none: "nil").
Failed(s) == s.err # "nil"

\* A call that cannot fail.
Log(s, call, ft, fid) == [s EXCEPT !.io = Append(@, <<call, ft, fid, "ok">>)]

\* The call of the sequence `calls` was made and did not fail: the calls
\* are made in order, up to the one that fails.
Ok(s, calls, call) ==
    \E fail \in {s.fail}, i \in DOMAIN calls :
       calls[i] = call /\ \A j \in 1..i : calls[j] # fail

\* s after the calls on file fid: the first error is kept.
Io(s, calls, ft, fid) ==
    LET fails == \E i \in DOMAIN calls : calls[i] = s.fail
        made == IF fails THEN CHOOSE i \in DOMAIN calls : calls[i] = s.fail
                ELSE Len(calls)
    IN [s EXCEPT !.err = IF fails THEN s.fail ELSE @,
                 !.fail = IF fails THEN "none" ELSE @,
                 !.io = @ \o [i \in 1..made |->
                                <<calls[i], ft, fid,
                                  IF calls[i] = s.fail THEN "failed"
                                  ELSE "ok">>]]

\* logWrapper.getCurrentFile
getCurrentFile(wrapper) ==
    IF wrapper.maxFid \in DOMAIN wrapper.filesMap THEN wrapper.maxFid
    ELSE nilFile

\* db.getPersistedHead (db.go): the head pointer that is on disk.
getPersistedHead == vhead

\* walCleaner.dropBefore(fid): fid is sent on delChan; sending on the
\* channel that the cleaner has closed is a run-time panic.  A fid that
\* leaves the cleaner nothing to do (no WAL file is below it and it passes
\* the cleaner's sanity check) is received without effect and is not
\* queued here.
dropBefore(s, fid) ==
    IF s.wc.closed THEN [s EXCEPT !.panic = "send on closed channel"]
    ELSE IF fid <= s.lw[walFile].maxFid
            /\ \A f \in DOMAIN s.lw[walFile].filesMap : f >= fid
    THEN s
    ELSE [s EXCEPT !.wc.delChan = Append(@, fid)]

\* valueLog.purgeOldFiles
purgeOldFiles(s) == dropBefore(s, getPersistedHead.Fid)

\* createLogFile that puts the file into the file map before the directory
\* is synced.
createLogFileAdvertisesEarly(s, fid, ft) ==
    LET lf == mmap(LogFile(fid, 0, 0), ft, 2 * opt.ValueLogFileSize)
        opened == Log([s EXCEPT !.disk[ft] = PutKey(@, fid, bootstrap)],
                      "create", ft, fid)
        created == Log([opened EXCEPT
                          !.lw[ft].filesMap = PutKey(@, fid, lf),
                          !.lw[ft].maxFid = fid,
                          !.lw[ft].writableOffset = lfHeaderSize,
                          !.lw[ft].numEntriesWritten = 0],
                       "advertise", ft, fid)
    IN Log(Log(Log(created, "bootstrap", ft, fid), "syncDir", ft, fid),
           "mmap", ft, fid)

\* valueLog.createLogFile(fid, ft): the file is created, its header is
\* written, the directory is synced and the file is mapped at twice the
\* segment size; then it becomes the writable file of its log wrapper and
\* the WAL cleaner is told the persisted head.  After a failed call the file
\* is removed again and the log wrapper is as it was.
createLogFile(s, fid, ft) ==
    LET calls == <<"create", "bootstrap", "syncDir", "mmap", "advertise">>
        lf == mmap(LogFile(fid, 0, 0), ft, 2 * opt.ValueLogFileSize)
        run(t, created, removed, above) ==
            LET done ==
                [Io(t, calls, ft, fid) EXCEPT
                   !.disk[ft] = IF created /\ ~removed
                                THEN PutKey(@, fid, bootstrap) ELSE @,
                   !.lw[ft] = IF created /\ ~removed
                              THEN [@ EXCEPT !.filesMap = PutKey(@, fid, lf),
                                             !.maxFid = fid,
                                             !.writableOffset = lfHeaderSize,
                                             !.numEntriesWritten = 0]
                              ELSE @,
                   !.io = IF removed THEN Append(@, <<"remove", ft, fid, "ok">>)
                          ELSE @,
                   !.panic = IF created /\ ~removed /\ ~above
                             THEN "createLogFile: fid not above maxFid" ELSE @]
            IN IF created /\ ~removed /\ above THEN purgeOldFiles(done)
               ELSE done
    IN CHOOSE r \in {run(t, Ok(t, calls, "create"),
                         Ok(t, calls, "create") /\ ~Ok(t, calls, "advertise"),
                         fid = 0 \/ t.lw[ft].maxFid < fid) : t \in {s}} : TRUE

\* doneWriting that leaves the file unmapped.
doneWritingNoRemap(s, ft, fid, offset) ==
    LET f == Truncate(s.disk[ft][fid], offset)
    IN Log(Log(Log(Log(Log([s EXCEPT !.disk[ft][fid] = f,
                                     !.lw[ft].filesMap[fid] = munmap(@, ft)],
                           "sync", ft, fid), "lock", ft, fid),
                   "munmap", ft, fid), "truncate", ft, fid), "unlock", ft, fid)

\* logFile.doneWriting(offset): the file is synced; then, under its
\* exclusive lock, it is unmapped, truncated to offset and mapped again at
\* the new size.
doneWriting(s, ft, fid, offset) ==
    LET calls == <<"sync", "lock", "munmap", "truncate", "init">>
        run(t) ==
            [Io(t, calls, ft, fid) EXCEPT
               !.disk[ft][fid] = IF Ok(t, calls, "truncate")
                                 THEN Truncate(@, offset) ELSE @,
               !.lw[ft].filesMap[fid] =
                   IF Ok(t, calls, "init")
                   THEN init(munmap(@, ft), ft,
                             Truncate(t.disk[ft][fid], offset))
                   ELSE IF Ok(t, calls, "munmap") THEN munmap(@, ft)
                   ELSE @,
               !.io = IF Ok(t, calls, "lock")
                      THEN Append(@, <<"unlock", ft, fid, "ok">>) ELSE @]
    IN CHOOSE r \in {run(t) : t \in {s}} : TRUE

\* rotateFile that returns the file it was given.
rotatedKeepsFile(s, ft, newid) == s

\* rotateFile once the new file is created, unless createLogFile failed.
rotated(s, ft, newid) ==
    IF Failed(s) THEN s ELSE [s EXCEPT !.cur[ft] = newid]

\* rotateFile once lf is finished, unless doneWriting failed.
rotateNext(s, ft, newid) ==
    IF Failed(s) THEN s
    ELSE IF ~(newid > 0)
    THEN [s EXCEPT !.panic = "rotateFile: newid has overflown uint32"]
    ELSE rotated(createLogFile(s, newid, ft), ft, newid)

\* logWrapper.rotateFile(lf): finish lf and create the file maxFid + 1.
rotateFile(s, ft, fid) ==
    IF s.lw[ft].writableOffset = 0 \/ fid # s.lw[ft].maxFid
    THEN [s EXCEPT !.panic = "rotateFile: sanity check"]
    ELSE rotateNext(doneWriting(s, ft, fid, s.lw[ft].writableOffset), ft,
                    U32(s.lw[ft].maxFid + 1))

(***************************************************************************)
(* valueLog.write.                                                         *)
(***************************************************************************)
\* valuePointer{}
zeroVP == [Fid |-> 0, Offset |-> 0, Len |-> 0]

Request(entries) == [Entries |-> entries, Ptrs |-> <<>>, head |-> zeroVP]

\* db.shouldWriteValueToLSM(e) (db.go): small values stay in the LSM tree.
shouldWriteValueToLSM(e) == e.vlen < opt.ValueThreshold

\* estimateRequestSize(req): uint64, no wrap-around at these sizes.
RECURSIVE estimateEntries(_)
estimateEntries(es) ==
    IF es = <<>> THEN 0
    ELSE maxHeaderSize + Head(es).klen + Head(es).vlen + crc32Size
         + estimateEntries(Tail(es))
estimateRequestSize(req) == estimateEntries(req.Entries)

\* The loop of validateWrites with vlogOffset as it stands before reqs.
RECURSIVE validateFrom(_, _)
validateFrom(vlogOffset, reqs) ==
    IF reqs = <<>> THEN "nil"
    ELSE LET estimatedVlogOffset == vlogOffset + estimateRequestSize(Head(reqs))
         IN IF estimatedVlogOffset > maxVlogFileSize THEN "SizeExceeded"
            ELSE IF estimatedVlogOffset >= opt.ValueLogFileSize
            THEN validateFrom(0, Tail(reqs))
            ELSE validateFrom(estimatedVlogOffset, Tail(reqs))

\* valueLog.validateWrites(reqs)
validateWrites(reqs) == validateFrom(lw[walFile].writableOffset, reqs)

\* bytes.Buffer.Len() of a buffer of encoded records.
BufLen(buf) == BytesLen([k \in 1..Len(buf) |-> buf[k].rec])

\* Where the records of a buffer end up: file fid, at their offsets.
Placed(buf, fid) ==
    [k \in 1..Len(buf) |-> [req |-> buf[k].req, ent |-> buf[k].ent,
                            fid |-> fid, offset |-> buf[k].offset,
                            len |-> U32(RecLen(buf[k].rec))]]

\* flushBufToFile(buf, lf, lw): append the buffer to the file, then account
\* for the bytes in lw.writableOffset and lf.size.  The bytes are in the
\* file when the assertion on the offset is evaluated.
flushBufToFile(s, ft) ==
    LET buf == s.buf[ft]
        fid == s.cur[ft]
        n == BufLen(buf)
        f == s.disk[ft][fid]
        off == s.lw[ft].writableOffset
        newOff == U32(off + U32(n))
        written == [s EXCEPT
                      !.disk[ft][fid] =
                          File(f.recs \o [k \in 1..Len(buf) |-> buf[k].rec],
                               f.size + n),
                      !.buf[ft] = <<>>,
                      !.placed[ft] = @ \o Placed(buf, fid),
                      !.io = Append(@, <<"write", ft, fid,
                                         IF opt.SyncWrites THEN "synced"
                                         ELSE "ok">>)]
    IN IF buf = <<>> THEN s
       ELSE IF ~(newOff > off)
       THEN [written EXCEPT !.panic = "flushBufToFile: offset wrapped",
                            !.panicFt = ft]
       ELSE [written EXCEPT !.lw[ft].writableOffset = newOff,
                            !.lw[ft].filesMap[fid].size = newOff]

\* flushLargeBuf that goes on to rotate the file, as toDisk does.
flushLargeBufAndRotate(s, ft) ==
    IF BufLen(s.buf[ft]) > opt.ValueLogFileSize
    THEN LET flushed == flushBufToFile(s, ft)
         IN IF flushed.panic = "none"
               /\ flushed.lw[ft].writableOffset > U32(opt.ValueLogFileSize)
            THEN rotateFile(flushed, ft, flushed.cur[ft])
            ELSE flushed
    ELSE s

\* The flush of a buffer that has grown beyond the segment size while a
\* request is being encoded.
flushLargeBuf(s, ft) ==
    IF BufLen(s.buf[ft]) > opt.ValueLogFileSize THEN flushBufToFile(s, ft)
    ELSE s

\* e.meta after the value log record was encoded, which left err: the meta
\* saved before the transaction bits were cleared is put back only when
\* the encoding has succeeded.
metaAfterEncodeOnSuccess(e, meta, err) == IF err THEN e.meta ELSE meta

\* e.meta after the value log record was encoded: the meta saved before
\* the transaction bits were cleared, whatever the encoding has returned.
metaAfterEncode(e, meta, err) == meta

\* The second half of the body of the entry loop: the value log.  e is the
\* caller's entry: s.metas records the meta it is left with.
writeVlogEntry(s, e, tag) ==
    LET encode(s3) ==
            LET pOffset == U32(s3.lw[vlogFile].writableOffset
                               + U32(BufLen(s3.buf[vlogFile])))
                cleared == [e EXCEPT !.meta = @ \ {bitTxn, bitFinTxn}]
                rec == encodeEntry(cleared, pOffset)
                p == [Fid |-> s3.cur[vlogFile], Offset |-> pOffset,
                      Len |-> U32(RecLen(rec))]
                left(err) == [ent |-> tag.ent,
                              meta |-> metaAfterEncode(cleared, e.meta, err)]
                s4 == [s3 EXCEPT !.buf[vlogFile] =
                                     Append(@, [rec |-> rec, req |-> tag.req,
                                                ent |-> tag.ent,
                                                offset |-> pOffset]),
                                 !.Ptrs = Append(@, p),
                                 !.metas = Append(@, left(FALSE)),
                                 !.vlogWritten = @ + 1]
            IN IF s3.panic # "none" \/ Failed(s3) THEN s3
               ELSE IF s3.fail = "encodeVlog"
               THEN [s3 EXCEPT !.err = "encodeEntry", !.fail = "none",
                               !.metas = Append(@, left(TRUE))]
               ELSE flushLargeBuf(s4, vlogFile)
    IN encode(IF DOMAIN s.lw[vlogFile].filesMap = {}
              THEN [createLogFile(s, 0, vlogFile) EXCEPT !.cur[vlogFile] = 0]
              ELSE s)

\* The body of the entry loop that sets the head of the request once, at
\* its first entry that is not skipped.
writeEntryHeadOnce(s, e, tag) ==
    IF e.skipVlog THEN [s EXCEPT !.Ptrs = Append(@, zeroVP)]
    ELSE LET wOffset == U32(s.lw[walFile].writableOffset
                            + U32(BufLen(s.buf[walFile])))
             rec == encodeEntry(e, wOffset)
             s1 == [s EXCEPT !.buf[walFile] =
                                 Append(@, [rec |-> rec, req |-> tag.req,
                                            ent |-> tag.ent, offset |-> wOffset]),
                             !.head = IF @ # zeroVP THEN @
                                      ELSE [Fid |-> s.cur[walFile],
                                            Offset |-> wOffset,
                                            Len |-> U32(RecLen(rec))],
                             !.walWritten = @ + 1]
             s2 == flushLargeBuf(s1, walFile)
         IN IF s2.panic # "none" THEN s2
            ELSE IF shouldWriteValueToLSM(e)
            THEN [s2 EXCEPT !.Ptrs = Append(@, zeroVP)]
            ELSE writeVlogEntry(s2, e, tag)

\* The body of the loop over b.Entries for entry e.
writeEntry(s, e, tag) ==
    IF e.skipVlog THEN [s EXCEPT !.Ptrs = Append(@, zeroVP)]
    ELSE LET wOffset == U32(s.lw[walFile].writableOffset
                            + U32(BufLen(s.buf[walFile])))
             rec == encodeEntry(e, wOffset)
             s1 == [s EXCEPT !.buf[walFile] =
                                 Append(@, [rec |-> rec, req |-> tag.req,
                                            ent |-> tag.ent, offset |-> wOffset]),
                             !.head = [Fid |-> s.cur[walFile],
                                       Offset |-> wOffset,
                                       Len |-> U32(RecLen(rec))],
                             !.walWritten = @ + 1]
             s2 == flushLargeBuf(s1, walFile)
         IN IF s.fail = "encodeWal"
            THEN [s EXCEPT !.err = "encodeEntry", !.fail = "none"]
            ELSE IF ~(s.lw[walFile].writableOffset <= wOffset)
            THEN [s1 EXCEPT !.panic = "write: head before the WAL offset",
                            !.panicFt = walFile]
            ELSE IF s2.panic # "none" THEN s2
            ELSE IF shouldWriteValueToLSM(e)
            THEN [s2 EXCEPT !.Ptrs = Append(@, zeroVP)]
            ELSE writeVlogEntry(s2, e, tag)

\* The loop over b.Entries from entry j on; a failed assertion or an error
\* of encodeEntry ends it.
RECURSIVE writeEntries(_, _, _, _)
writeEntries(s, entries, req, j) ==
    IF j > Len(entries) \/ s.panic # "none" \/ Failed(s) THEN s
    ELSE writeEntries(writeEntry(s, entries[j], [req |-> req, ent |-> j]),
                      entries, req, j + 1)

\* The condition under which toDisk rotates the writable file of a wrapper.
needRotate(s, ft) ==
    \/ s.lw[ft].writableOffset > U32(opt.ValueLogFileSize)
    \/ s.lw[ft].numEntriesWritten > opt.ValueLogMaxEntries

\* writeNow, evaluated after the entries of a request have been encoded.
writeNow(s) ==
    \/ \E ft \in fileTypes :
          U32(s.lw[ft].writableOffset + U32(BufLen(s.buf[ft])))
             > U32(opt.ValueLogFileSize)
    \/ \E ft \in fileTypes :
          s.lw[ft].numEntriesWritten > U32(opt.ValueLogMaxEntries)

\* flushWrites: the WAL buffer, then the value log buffer.
flushWrites(s) ==
    LET flushed == flushBufToFile(s, walFile)
    IN IF flushed.panic # "none" THEN flushed
       ELSE flushBufToFile(flushed, vlogFile)

WriterIdle ==
    [pc |-> "idle", reqs |-> <<>>, i |-> 0,
     cur |-> [ft \in fileTypes |-> nilFile],
     buf |-> [ft \in fileTypes |-> <<>>],
     final |-> FALSE, err |-> "nil", panicFt |-> "none"]

\* The calls of write that the history keeps.
Recorded(s) == IF hist.trace THEN s.io ELSE <<>>

\* The record the operators of write work on, for the request at hand.
WriteState(ptrs, head) ==
    [disk |-> disk, lw |-> lw, buf |-> wr.buf, cur |-> wr.cur,
     Ptrs |-> ptrs, head |-> head, walWritten |-> 0, vlogWritten |-> 0,
     panic |-> "none", panicFt |-> "none", placed |-> hist.placed,
     io |-> hist.io, fail |-> "none", err |-> "nil", metas |-> <<>>,
     wc |-> wc]

\* Where write goes on after toDisk has returned: it returns to its caller
\* after the final call, else it takes the next request, or makes the final
\* call when there is none.
AfterToDisk(s) ==
    IF wr.final
    THEN /\ wr' = [WriterIdle EXCEPT !.reqs = wr.reqs]
         /\ hist' = [hist EXCEPT !.placed = s.placed, !.io = Recorded(s),
                                 !.result = "ok",
                                 !.done = @ \o wr.reqs]
    ELSE /\ wr' = IF wr.i < Len(wr.reqs)
                  THEN [wr EXCEPT !.pc = "request", !.i = @ + 1,
                                  !.buf = s.buf, !.cur = s.cur]
                  ELSE [wr EXCEPT !.pc = "toDisk", !.final = TRUE,
                                  !.buf = s.buf, !.cur = s.cur]
         /\ hist' = [hist EXCEPT !.placed = s.placed,
                                 !.io = Recorded(s)]

\* A failed assertion ends the process with what has been done so far.
Panic(s) ==
    /\ wr' = [wr EXCEPT !.pc = "panic", !.err = s.panic, !.panicFt = s.panicFt,
                        !.buf = s.buf, !.cur = s.cur]
    /\ hist' = [hist EXCEPT !.placed = s.placed, !.io = Recorded(s),
                            !.result = "panic"]

\* WriteBegin that validates the batch only after the first request has
\* been encoded and flushed.
WriteBeginValidatesLate(reqs) ==
    /\ wr.pc = "idle"
    /\ op.pc = "done" /\ ~hist.reopened
    /\ bg.state = "open"
    /\ hist.nwrites < MaxWrites
    /\ LET s0 == [WriteState(<<>>, zeroVP) EXCEPT
                    !.cur = [ft \in fileTypes |-> getCurrentFile(lw[ft])]]
           s == flushWrites(writeEntries(s0, reqs[1].Entries,
                                         reqs[1].Entries[1].ts, 1))
           err == validateWrites(reqs)
       IN /\ disk' = s.disk /\ lw' = s.lw
          /\ wr' = [WriterIdle EXCEPT
                      !.reqs = [reqs EXCEPT ![1].Ptrs = s.Ptrs,
                                            ![1].head = s.head],
                      !.err = err]
          /\ hist' = [hist EXCEPT
                        !.nwrites = @ + 1, !.nextTs = @ + Len(reqs),
                        !.result = IF err # "nil" THEN "rejected" ELSE "ok",
                        !.before = [disk |-> disk, lw |-> lw, reqs |-> reqs],
                           !.io = <<>>]
    /\ UNCHANGED <<opt, vhead, replayVars, readVars, gcVars>>

\* write(reqs) up to the loop over the requests: the batch is validated
\* before anything is written.
Submit(reqs) ==
    /\ wr.pc = "idle"
    /\ op.pc = "done" /\ ~hist.reopened
    /\ bg.state = "open"
    /\ IF validateWrites(reqs) # "nil"
       THEN /\ wr' = [WriterIdle EXCEPT !.reqs = reqs,
                                        !.err = validateWrites(reqs)]
            /\ hist' = [hist EXCEPT !.nwrites = @ + 1, !.result = "rejected",
                           !.nextTs = @ + Len(reqs),
                           !.before = [disk |-> disk, lw |-> lw, reqs |-> reqs],
                           !.io = <<>>]
       ELSE /\ wr' = [WriterIdle EXCEPT
                         !.pc = "request", !.reqs = reqs, !.i = 1,
                         !.cur = [ft \in fileTypes |-> getCurrentFile(lw[ft])]]
            /\ hist' = [hist EXCEPT !.nwrites = @ + 1, !.result = "writing",
                           !.nextTs = @ + Len(reqs),
                           !.before = [disk |-> disk, lw |-> lw, reqs |-> reqs],
                           !.io = <<>>]
    /\ UNCHANGED <<diskVars, replayVars, readVars>>

\* write(reqs) called for a batch of the user.
WriteBegin(reqs) ==
    /\ hist.nwrites < MaxWrites
    /\ Submit(reqs)
    /\ UNCHANGED gcVars

\* b.Entries as write leaves them: metas lists the entries whose meta was
\* assigned, each with the meta it was left with.
EntriesLeft(entries, metas) ==
    [j \in DOMAIN entries |->
       IF \E k \in DOMAIN metas : metas[k].ent = j
       THEN [entries[j] EXCEPT
               !.meta = metas[CHOOSE k \in DOMAIN metas : metas[k].ent = j].meta]
       ELSE entries[j]]

\* One turn of the loop over the requests where encodeEntry returns an
\* error, for the WAL or for the value log: write returns the error.
WriteRequestFails(call) ==
    /\ wr.pc = "request"
    /\ LET b == wr.reqs[wr.i]
           s1 == writeEntries([WriteState(<<>>, b.head) EXCEPT !.fail = call],
                              b.Entries, b.Entries[1].ts, 1)
       IN /\ Failed(s1)
          /\ disk' = s1.disk /\ lw' = s1.lw /\ wc' = s1.wc
          /\ wr' = [WriterIdle EXCEPT
                      !.reqs = [wr.reqs EXCEPT
                                  ![wr.i].Ptrs = s1.Ptrs,
                                  ![wr.i].head = s1.head,
                                  ![wr.i].Entries = EntriesLeft(@, s1.metas)],
                      !.err = s1.err]
          /\ hist' = [hist EXCEPT !.placed = s1.placed, !.io = Recorded(s1),
                                  !.result = "error"]
    /\ UNCHANGED <<opt, vhead, replayVars, readVars, lsm, gc>>

\* One turn of the loop over the requests: the entries of request i are
\* encoded (and flushed when a buffer grows too large), the entry counters
\* are advanced and writeNow is evaluated.
WriteRequest ==
    /\ wr.pc = "request"
    /\ LET b == wr.reqs[wr.i]
           s0 == WriteState(<<>>, b.head)
           s1 == writeEntries(s0, b.Entries, b.Entries[1].ts, 1)
           s == [s1 EXCEPT
                   !.lw[walFile].numEntriesWritten = U32(@ + s1.walWritten),
                   !.lw[vlogFile].numEntriesWritten = U32(@ + s1.vlogWritten)]
           reqs == [wr.reqs EXCEPT ![wr.i].Ptrs = s1.Ptrs,
                                   ![wr.i].head = s1.head,
                                   ![wr.i].Entries = EntriesLeft(@, s1.metas)]
       IN /\ wc' = s1.wc /\ Len(s1.wc.delChan) <= delChanSize
          /\ IF s1.panic # "none"
             THEN /\ disk' = s1.disk /\ lw' = s1.lw
                  /\ wr' = [wr EXCEPT !.pc = "panic", !.err = s1.panic,
                                      !.panicFt = s1.panicFt, !.reqs = reqs,
                                      !.buf = s1.buf, !.cur = s1.cur]
                  /\ hist' = [hist EXCEPT !.placed = s1.placed,
                                          !.io = Recorded(s1),
                                          !.result = "panic"]
             ELSE /\ disk' = s.disk /\ lw' = s.lw
                  /\ hist' = [hist EXCEPT !.placed = s.placed,
                                          !.io = Recorded(s)]
                  /\ wr' = [wr EXCEPT
                              !.reqs = reqs, !.buf = s.buf, !.cur = s.cur,
                              !.pc = IF writeNow(s) \/ wr.i = Len(wr.reqs)
                                     THEN "toDisk" ELSE "request",
                              !.i = IF writeNow(s) \/ wr.i = Len(wr.reqs)
                                    THEN @ ELSE @ + 1,
                              !.final = ~writeNow(s) /\ wr.i = Len(wr.reqs)]
    /\ UNCHANGED <<opt, vhead, replayVars, readVars, lsm, gc>>

\* toDisk up to its rotations: both buffers are flushed.
WriteToDisk ==
    /\ wr.pc = "toDisk"
    /\ LET s == flushWrites(WriteState(<<>>, zeroVP))
       IN /\ disk' = s.disk /\ lw' = s.lw
          /\ IF s.panic # "none" THEN Panic(s)
             ELSE IF needRotate(s, vlogFile)
             THEN /\ wr' = [wr EXCEPT !.pc = "rotateVlog", !.buf = s.buf]
                  /\ hist' = [hist EXCEPT !.placed = s.placed,
                                          !.io = Recorded(s)]
             ELSE IF needRotate(s, walFile)
             THEN /\ wr' = [wr EXCEPT !.pc = "rotateWal", !.buf = s.buf]
                  /\ hist' = [hist EXCEPT !.placed = s.placed,
                                          !.io = Recorded(s)]
             ELSE AfterToDisk(s)
    /\ UNCHANGED <<opt, vhead, replayVars, readVars, gcVars>>

\* toDisk: the value log file is rotated; doneWriting waits for the
\* exclusive lock of the file.
WriteRotateVlog ==
    /\ wr.pc = "rotateVlog"
    /\ CanLock(vlogFile, wr.cur[vlogFile])
    /\ CanLockFiles(vlogFile)
    /\ LET s == rotateFile(WriteState(<<>>, zeroVP), vlogFile, wr.cur[vlogFile])
       IN /\ disk' = s.disk /\ lw' = s.lw
          /\ IF s.panic # "none" THEN Panic(s)
             ELSE IF needRotate(s, walFile)
             THEN /\ wr' = [wr EXCEPT !.pc = "rotateWal", !.cur = s.cur]
                  /\ hist' = [hist EXCEPT !.io = Recorded(s)]
             ELSE AfterToDisk(s)
          /\ wc' = s.wc /\ Len(s.wc.delChan) <= delChanSize
    /\ UNCHANGED <<opt, vhead, replayVars, readVars, lsm, gc>>

\* The calls of rotateFile that can fail.
RotateCalls ==
    {"sync", "munmap", "truncate", "init", "create", "bootstrap", "syncDir",
     "mmap"}

\* toDisk: a call made by rotateFile fails, and write returns the error.
WriteRotateFails(ft, call) ==
    /\ wr.pc = IF ft = vlogFile THEN "rotateVlog" ELSE "rotateWal"
    /\ CanLock(ft, wr.cur[ft])
    /\ CanLockFiles(ft)
    /\ LET s == rotateFile([WriteState(<<>>, zeroVP) EXCEPT !.fail = call],
                           ft, wr.cur[ft])
       IN /\ Failed(s)
          /\ disk' = s.disk /\ lw' = s.lw /\ wc' = s.wc
          /\ wr' = [WriterIdle EXCEPT !.reqs = wr.reqs, !.err = s.err]
          /\ hist' = [hist EXCEPT !.placed = s.placed, !.io = Recorded(s),
                                  !.result = "error"]
    /\ UNCHANGED <<opt, vhead, replayVars, readVars, lsm, gc>>

\* toDisk: the WAL file is rotated.
WriteRotateWal ==
    /\ wr.pc = "rotateWal"
    /\ CanLock(walFile, wr.cur[walFile])
    /\ CanLockFiles(walFile)
    /\ LET s == rotateFile(WriteState(<<>>, zeroVP), walFile, wr.cur[walFile])
       IN /\ disk' = s.disk /\ lw' = s.lw
          /\ IF s.panic # "none" THEN Panic(s) ELSE AfterToDisk(s)
          /\ wc' = s.wc /\ Len(s.wc.delChan) <= delChanSize
    /\ UNCHANGED <<opt, vhead, replayVars, readVars, lsm, gc>>

(***************************************************************************)
(* valueLog.Read.                                                          *)
(***************************************************************************)
\* The logFile a reader or a deleter has in hand: the one in the file map,
\* or the one that has been taken out of it.
LfObj(fid) ==
    IF fid \in DOMAIN lw[vlogFile].filesMap THEN lw[vlogFile].filesMap[fid]
    ELSE bg.detached[fid]

\* getFileRLockedErr with the offset check off by one.
getFileRLockedErrOffByOne(vp) ==
    IF vp.Fid \notin DOMAIN lw[vlogFile].filesMap THEN "ErrRetry"
    ELSE IF vp.Fid = lw[vlogFile].maxFid
            /\ vp.Offset > lw[vlogFile].writableOffset
    THEN "InvalidOffset"
    ELSE "nil"

\* The error getFileRLocked returns before it takes the lock of the file.
getFileRLockedErr(vp) ==
    IF vp.Fid \notin DOMAIN lw[vlogFile].filesMap THEN "ErrRetry"
    ELSE IF vp.Fid = lw[vlogFile].maxFid
            /\ vp.Offset >= lw[vlogFile].writableOffset
    THEN "InvalidOffset"
    ELSE "nil"

\* The bytes of file f at [p.Offset, p.Offset + p.Len): one whole record, or
\* something else.
BytesAt(f, p) ==
    LET i == RecAt(f.recs, p.Offset)
    IN IF i # 0 /\ RecLen(f.recs[i]) = p.Len /\ p.Offset + p.Len <= f.size
       THEN [kind |-> "record", rec |-> f.recs[i]]
       ELSE [kind |-> "other"]

\* logFile.read(p): [err, buf].
read(lf, f, p) ==
    IF opt.ValueLogLoadingMode = FileIO
    THEN IF p.Offset + p.Len <= f.size
         THEN [err |-> "nil", buf |-> BytesAt(f, p)]
         ELSE [err |-> "EOF", buf |-> [kind |-> "other"]]
    ELSE IF \/ p.Offset >= lf.fmapLen
            \/ U32(p.Offset + p.Len) > lf.fmapLen
            \/ U32(p.Offset + p.Len) > lf.size
         THEN [err |-> "ErrEOF", buf |-> [kind |-> "other"]]
         \* lf.fmap[offset : offset+valsz] with offset above offset+valsz
         ELSE IF U32(p.Offset + p.Len) < p.Offset
         THEN [err |-> "panic: slice bounds out of range",
               buf |-> [kind |-> "other"]]
         ELSE [err |-> "nil", buf |-> BytesAt(f, p)]

\* getUnlockCallback that hands out the unlock handle in every mode.
getUnlockCallbackAlways(lf) == lf # nilFile

\* getUnlockCallback(lf): whether the handle it returns is non-nil.  When it
\* is nil and lf is not, the lock has been released.
getUnlockCallback(lf) ==
    lf # nilFile /\ opt.ValueLogLoadingMode = MemoryMap

\* getFileRLocked up to ret.lock.RLock(): the file is looked up under the
\* shared filesLock, which is released with the error when there is one.
ReadBegin(r, vp) ==
    /\ rd[r].pc = "idle"
    /\ CanRLockFiles(vlogFile)
    /\ LET err == getFileRLockedErr(vp)
           at == [inMap |-> vp.Fid \in DOMAIN lw[vlogFile].filesMap,
                  maxFid |-> lw[vlogFile].maxFid,
                  offset |-> lw[vlogFile].writableOffset,
                  removed |-> vp.Fid \in bg.removed]
       IN IF err # "nil"
          THEN /\ rd' = [rd EXCEPT ![r] =
                          [pc |-> "returned", vp |-> vp, at |-> at,
                           err |-> err, cb |-> getUnlockCallback(nilFile),
                           value |-> "nil"]]
               /\ UNCHANGED locks
          ELSE /\ rd' = [rd EXCEPT ![r] = [pc |-> "rlock", vp |-> vp, at |-> at]]
               /\ locks' = [locks EXCEPT !.files[vlogFile] =
                                            @ \cup {<<r, "R">>}]
    /\ UNCHANGED <<diskVars, replayVars, writeVars, bg, gcVars>>

\* getFileRLocked: ret.lock.RLock(), then the deferred filesLock.RUnlock().
ReadRLock(r) ==
    /\ rd[r].pc = "rlock"
    /\ CanRLock(vlogFile, rd[r].vp.Fid)
    /\ locks' = [locks EXCEPT
                   !.lf = @ \cup {<<vlogFile, rd[r].vp.Fid, r, "R">>},
                   !.files[vlogFile] = @ \ {<<r, "R">>}]
    /\ rd' = [rd EXCEPT ![r].pc = "locked"]
    /\ UNCHANGED <<diskVars, replayVars, writeVars, bg, gcVars>>

\* The rest of Read, with the file read-locked: lf.read, getUnlockCallback,
\* the checksum and the decoding of the record.
ReadBytes(r) ==
    /\ rd[r].pc = "locked"
    /\ LET vp == rd[r].vp
           held == <<vlogFile, vp.Fid, r, "R">>
           res == read(LfObj(vp.Fid), disk[vlogFile][vp.Fid], vp)
           cb == getUnlockCallback(vp.Fid)
           ret(err, handle, value, unlock) ==
               /\ rd' = [rd EXCEPT ![r] = [@ EXCEPT !.pc = "returned"]
                                          @@ [err |-> err, cb |-> handle,
                                              value |-> value]]
               /\ locks' = IF unlock THEN [locks EXCEPT !.lf = @ \ {held}]
                           ELSE locks
       IN IF res.err # "nil" THEN ret(res.err, cb, "nil", ~cb)
          ELSE IF opt.VerifyValueChecksum
                  /\ (res.buf.kind # "record" \/ ~res.buf.rec.crcOk)
          THEN ret("ErrChecksumMismatch", FALSE, "nil", TRUE)
          ELSE IF res.buf.kind # "record"
          THEN ret("Invalid read", FALSE, "nil", ~cb)
          ELSE ret("nil", cb, res.buf.rec.value, ~cb)
    /\ UNCHANGED <<diskVars, replayVars, writeVars, bg, gcVars>>

\* The caller is done with what Read returned: it calls the unlock handle
\* when it got one.
ReadDone(r) ==
    /\ rd[r].pc = "returned"
    /\ locks' = IF rd[r].cb
                THEN [locks EXCEPT !.lf = @ \ {<<vlogFile, rd[r].vp.Fid, r, "R">>}]
                ELSE locks
    /\ rd' = [rd EXCEPT ![r] = ReaderIdle]
    /\ UNCHANGED <<diskVars, replayVars, writeVars, bg, gcVars>>

(***************************************************************************)
(* Deleting value log files: iterators, the end of a GC rewrite, dropAll   *)
(* and Close.                                                              *)
(***************************************************************************)
\* valueLog.deleteLogFile(lf) under the exclusive lock of lf: unmap, close,
\* remove.  The logFile stays in the hands of its users, closed.
deleteLogFile(fid) ==
    /\ disk' = [disk EXCEPT ![vlogFile] = RemoveKey(@, fid)]
    /\ lw' = IF fid \in DOMAIN lw[vlogFile].filesMap
             THEN [lw EXCEPT ![vlogFile].filesMap[fid] =
                                [munmap(@, vlogFile) EXCEPT !.fd = "closed"]]
             ELSE lw
    /\ bg' = [bg EXCEPT
                !.detached = PutKey(@, fid,
                                [munmap(LfObj(fid), vlogFile) EXCEPT
                                    !.fd = "closed"]),
                !.deleting = @ \ {fid}, !.todo = @ \ {fid},
                !.removed = @ \cup {fid},
                !.rewritten = IF fid \in DOMAIN lw[vlogFile].filesMap THEN @
                              ELSE @ \ {fid}]

\* incrIteratorCount
incrIteratorCount(most) ==
    /\ bg.state = "open"
    /\ lw[vlogFile].numActiveIterators < most
    /\ lw' = [lw EXCEPT ![vlogFile].numActiveIterators = @ + 1]
    /\ UNCHANGED <<opt, disk, vhead, replayVars, writeVars, locks, rd, bg,
                   gcVars>>

IterOpen == incrIteratorCount(MaxIterators)

\* decrIteratorCount whose every call goes on to take the files to be
\* deleted, whatever the count it has reached.
IterCloseAlwaysDeletes ==
    /\ lw[vlogFile].numActiveIterators > 0
    /\ bg.zeroed < MaxZeroed
    /\ lw' = [lw EXCEPT ![vlogFile].numActiveIterators = @ - 1]
    /\ bg' = [bg EXCEPT !.zeroed = @ + 1]
    /\ UNCHANGED <<opt, disk, vhead, replayVars, writeVars, locks, rd, gcVars>>

\* decrIteratorCount, the atomic decrement; the call that reaches zero goes
\* on to take the files to be deleted (bg.zeroed counts such calls).
IterClose ==
    /\ lw[vlogFile].numActiveIterators > 0
    /\ lw[vlogFile].numActiveIterators - 1 = 0 => bg.zeroed < MaxZeroed
    /\ lw' = [lw EXCEPT ![vlogFile].numActiveIterators = @ - 1]
    /\ bg' = [bg EXCEPT !.zeroed = IF lw[vlogFile].numActiveIterators - 1 = 0
                                   THEN @ + 1 ELSE @]
    /\ UNCHANGED <<opt, disk, vhead, replayVars, writeVars, locks, rd, gcVars>>

\* decrIteratorCount after a decrement to zero, up to its calls of
\* deleteLogFile: under filesLock the files to be deleted are taken out of
\* the file map and the list is emptied.
IterDeleteFiles ==
    /\ bg.zeroed > 0
    /\ CanLockFiles(vlogFile)
    /\ LET ids == SeqRange(lw[vlogFile].filesToBeDeleted)
                     \cap DOMAIN lw[vlogFile].filesMap
       IN /\ lw' = [lw EXCEPT
                      ![vlogFile].filesMap =
                          [fid \in DOMAIN @ \ ids |-> @[fid]],
                      ![vlogFile].filesToBeDeleted = <<>>]
          /\ bg' = [bg EXCEPT
                      !.zeroed = @ - 1,
                      !.detached = [fid \in DOMAIN @ \cup ids |->
                                      IF fid \in ids
                                      THEN lw[vlogFile].filesMap[fid]
                                      ELSE @[fid]],
                      !.deleting = @ \cup ids,
                      !.removed = @ \cup ids]
    /\ UNCHANGED <<opt, disk, vhead, replayVars, writeVars, locks, rd, gcVars>>

\* rewrite, "Remove the older file now": under filesLock the file is taken
\* out of the file map to be deleted now, or left to the last iterator.
removeOlderFile(fid) ==
    /\ CanLockFiles(vlogFile)
    /\ IF lw[vlogFile].numActiveIterators = 0
       THEN /\ lw' = [lw EXCEPT ![vlogFile].filesMap = RemoveKey(@, fid)]
            /\ bg' = [bg EXCEPT
                        !.detached = PutKey(@, fid, lw[vlogFile].filesMap[fid]),
                        !.deleting = @ \cup {fid},
                        !.removed = @ \cup {fid},
                        !.rewritten = @ \cup {fid}]
       ELSE /\ lw' = [lw EXCEPT ![vlogFile].filesToBeDeleted = Append(@, fid)]
            /\ bg' = [bg EXCEPT !.rewritten = @ \cup {fid}]

\* The end of rewrite(f) for a file below the writable one.
RewriteDone(fid) ==
    /\ bg.state = "open"
    /\ fid \in SeqRange(sortedFids(lw[vlogFile]))
    /\ fid < lw[vlogFile].maxFid
    /\ removeOlderFile(fid)
    /\ UNCHANGED <<opt, disk, vhead, replayVars, writeVars, locks, rd, gcVars>>

\* deleteLogFile(f) at the end of rewrite and of decrIteratorCount.
DeleteDetached(fid) ==
    /\ fid \in bg.deleting
    /\ CanLock(vlogFile, fid)
    /\ deleteLogFile(fid)
    /\ UNCHANGED <<opt, vhead, replayVars, writeVars, locks, rd, gcVars>>

\* dropAll, deleteAll(&vlog.vlog) up to its loop: filesLock is taken.  It is
\* called while writes are stopped; the model runs it when no rewritten
\* file awaits deletion.
DropAllBegin ==
    /\ bg.state = "open" /\ wr.pc = "idle" /\ op.pc = "done"
    /\ bg.deleting = {} /\ lw[vlogFile].filesToBeDeleted = <<>>
    /\ CanLockFiles(vlogFile)
    /\ locks' = [locks EXCEPT !.files[vlogFile] = {<<"dropAll", "W">>}]
    /\ bg' = [bg EXCEPT !.state = "dropping",
                        !.todo = DOMAIN lw[vlogFile].filesMap]
    /\ UNCHANGED <<diskVars, replayVars, writeVars, rd, gcVars>>

\* dropAll, deleteAll(&vlog.vlog) up to its loop, called while iterators
\* are open and rewritten files await the last of them: dropAll does not
\* look at the iterator count.
DropAllBeginPending ==
    /\ bg.state = "open" /\ wr.pc = "idle" /\ op.pc = "done"
    /\ bg.deleting = {} /\ bg.zeroed = 0
    /\ CanLockFiles(vlogFile)
    /\ locks' = [locks EXCEPT !.files[vlogFile] = {<<"dropAll", "W">>}]
    /\ bg' = [bg EXCEPT !.state = "dropping",
                        !.todo = DOMAIN lw[vlogFile].filesMap]
    /\ UNCHANGED <<diskVars, replayVars, writeVars, rd, gcVars>>

\* dropAll, one turn of the loop of deleteAll(&vlog.vlog).
DropAllDelete(fid) ==
    /\ bg.state = "dropping"
    /\ fid \in bg.todo
    /\ CanLock(vlogFile, fid)
    /\ deleteLogFile(fid)
    /\ UNCHANGED <<opt, vhead, replayVars, writeVars, locks, rd, gcVars>>

\* dropAll after the loop: the value log file map is emptied, the WAL files
\* are deleted, WAL file 0 is created and the value log wrapper is reset.
DropAllFinish ==
    /\ bg.state = "dropping" /\ bg.todo = {}
    /\ \A fid \in DOMAIN lw[walFile].filesMap : CanLock(walFile, fid)
    /\ LET s0 == [disk |-> [disk EXCEPT ![walFile] = NoFiles],
                  lw |-> [lw EXCEPT ![walFile].filesMap = NoFiles,
                                    ![vlogFile].filesMap = NoFiles],
                  panic |-> "none", wc |-> wc, io |-> <<>>, fail |-> "none",
                  err |-> "nil"]
           s == createLogFile(s0, 0, walFile)
       IN /\ disk' = s.disk
          /\ lw' = [s.lw EXCEPT ![vlogFile].maxFid = 0,
                                ![vlogFile].writableOffset = 0,
                                ![vlogFile].numEntriesWritten = 0]
          /\ wc' = s.wc
    /\ locks' = [locks EXCEPT !.files[vlogFile] = {}]
    /\ bg' = [bg EXCEPT !.state = "open", !.rewritten = {}]
    /\ UNCHANGED <<opt, vhead, replayVars, writeVars, rd, lsm, gc>>

\* Close, one turn of the loop over the value log files: the file is locked
\* for good, unmapped, truncated to the written offset when it is the
\* writable file, and closed.
CloseFile(fid) ==
    /\ bg.state \in {"open", "closing"} /\ wr.pc = "idle" /\ op.pc = "done"
    /\ bg.deleting = {}
    /\ fid \in DOMAIN lw[vlogFile].filesMap
    /\ lw[vlogFile].filesMap[fid].fd = "open"
    /\ CanLock(vlogFile, fid)
    /\ locks' = [locks EXCEPT !.lf = @ \cup {<<vlogFile, fid, "Close", "W">>}]
    /\ lw' = [lw EXCEPT ![vlogFile].filesMap[fid] =
                           [munmap(@, vlogFile) EXCEPT !.fd = "closed"]]
    /\ disk' = IF ~opt.ReadOnly /\ fid = lw[vlogFile].maxFid
               THEN [disk EXCEPT ![vlogFile][fid] =
                                    Truncate(@, lw[vlogFile].writableOffset)]
               ELSE disk
    /\ bg' = [bg EXCEPT !.state = "closing"]
    /\ UNCHANGED <<opt, vhead, replayVars, writeVars, rd, gcVars>>

\* Close after the value log files: the WAL files are closed the same way.
CloseFinish ==
    /\ bg.state \in {"open", "closing"} /\ wr.pc = "idle" /\ op.pc = "done"
    /\ bg.deleting = {}
    /\ \A fid \in DOMAIN lw[vlogFile].filesMap :
          lw[vlogFile].filesMap[fid].fd = "closed"
    /\ \A fid \in DOMAIN lw[walFile].filesMap : CanLock(walFile, fid)
    /\ locks' = [locks EXCEPT !.lf = @ \cup
                    {<<walFile, fid, "Close", "W">> :
                        fid \in DOMAIN lw[walFile].filesMap}]
    /\ lw' = [lw EXCEPT ![walFile].filesMap =
                           [fid \in DOMAIN @ |-> [@[fid] EXCEPT !.fd = "closed"]]]
    /\ disk' = IF ~opt.ReadOnly
               THEN [disk EXCEPT ![walFile][lw[walFile].maxFid] =
                                    Truncate(@, lw[walFile].writableOffset)]
               ELSE disk
    /\ bg' = [bg EXCEPT !.state = "closed"]
    /\ UNCHANGED <<opt, vhead, replayVars, writeVars, rd, gcVars>>

(***************************************************************************)
(* The LSM tree (db.go, not part of src/) as the value log uses it.        *)
(* lsm.kv maps <<key, version>> to the value struct stored for it, lsm.now *)
(* is the clock that expiry is measured against.  A key is a number; the   *)
(* key with the move prefix in front is that number plus badgerMove.       *)
(***************************************************************************)
badgerMove == 10
HasMovePrefix(key) == key >= badgerMove
\* e.Key[len(badgerMove):]
StripMove(key) == key - badgerMove
\* append(badgerMove, key...)
WithMove(key) == key + badgerMove

\* y.ValueStruct; Value holds the encoded value pointer when the meta has
\* bitValuePointer.
ValueStruct(meta, vp, expiresAt, version) ==
    [Meta |-> meta, Value |-> vp, ExpiresAt |-> expiresAt, Version |-> version]
zeroVS == ValueStruct({}, zeroVP, 0, 0)

\* db.get(key with timestamp ts): the latest version of the key that is
\* not above ts, the zero value struct when there is none.
lsmGet(kv, key, ts) ==
    LET vers == {k[2] : k \in {x \in DOMAIN kv : x[1] = key /\ x[2] <= ts}}
    IN IF vers = {} THEN zeroVS ELSE kv[<<key, MaxOf(vers)>>]

\* db.batchSet: the entries are inserted as one group; an entry replaces
\* what is stored at its key and version.
lsmSet(kv, entries) ==
    [k \in DOMAIN kv \cup DOMAIN entries |->
       IF k \in DOMAIN entries THEN entries[k] ELSE kv[k]]

\* isDeletedOrExpired(meta, expiresAt); expiresAt = 0 is no expiry.
isDeletedOrExpired(meta, expiresAt, now) ==
    \/ bitDelete \in meta
    \/ expiresAt # 0 /\ expiresAt <= now

\* The look-up of the key without its move prefix in discardEntry, made at
\* the latest timestamp instead of the timestamp of the key.
underlyingLatest(db, key, ts) == lsmGet(db.kv, StripMove(key), MaxLsmTs)

\* The look-up of the key without its move prefix in discardEntry.
underlying(db, key, ts) == lsmGet(db.kv, StripMove(key), ts)

\* discardEntry(e, vs, db); db.getErr says that db.get fails.
discardEntry(e, vs, db) ==
    IF vs.Version # ParseTs(e) THEN TRUE
    ELSE IF isDeletedOrExpired(vs.Meta, vs.ExpiresAt, db.now) THEN TRUE
    ELSE IF bitValuePointer \notin vs.Meta THEN TRUE
    ELSE IF bitFinTxn \in vs.Meta THEN TRUE
    ELSE IF HasMovePrefix(e.key)
    THEN IF db.getErr THEN FALSE
         ELSE underlying(db, e.key, e.ts).Version = 0
    ELSE FALSE

(***************************************************************************)
(* The WAL cleaner.  wc.delChan is the channel, wc.signalled says that     *)
(* wc.closer has been signalled, wc.closed that the cleaner has closed the *)
(* channel; wc.hFid and wc.fids are the locals of the cleaner and wc.log   *)
(* lists the files it has deleted, each with the hFid it was deleted for.  *)
(***************************************************************************)
\* The cleaner's loop that goes on to the file of the head pointer.
stopsAtAfterHead(fid, hFid) == fid > hFid

\* The condition that ends the cleaner's loop over the fids.
stopsAt(fid, hFid) == fid >= hFid

\* walCleaner, case hFid := <-wc.delChan, up to the loop over the fids.
WcReceive ==
    /\ wc.pc = "select" /\ wc.delChan # <<>>
    /\ CanRLockFiles(walFile)
    /\ LET hFid == Head(wc.delChan)
       IN wc' = IF ~(hFid <= lw[walFile].maxFid)
                THEN [wc EXCEPT !.pc = "panic", !.delChan = Tail(@),
                                !.hFid = hFid]
                ELSE [wc EXCEPT !.pc = "loop", !.delChan = Tail(@),
                                !.hFid = hFid,
                                !.fids = sortedFids(lw[walFile])]
    /\ UNCHANGED <<diskVars, replayVars, writeVars, readVars, lsm, gc>>

\* walCleaner, one turn of the loop up to deleteLogFile: the loop ends at
\* the first fid that is not below hFid; else the file is taken out of the
\* file map under filesLock.
WcTake ==
    /\ wc.pc = "loop"
    /\ IF wc.fids = <<>> \/ stopsAt(Head(wc.fids), wc.hFid)
       THEN /\ wc' = [wc EXCEPT !.pc = "select", !.fids = <<>>]
            /\ UNCHANGED lw
       ELSE /\ CanLockFiles(walFile)
            /\ IF Head(wc.fids) \notin DOMAIN lw[walFile].filesMap
               THEN /\ wc' = [wc EXCEPT !.pc = "panic"]
                    /\ UNCHANGED lw
               ELSE /\ wc' = [wc EXCEPT !.pc = "delete"]
                    /\ lw' = [lw EXCEPT ![walFile].filesMap =
                                           RemoveKey(@, Head(wc.fids))]
    /\ UNCHANGED <<opt, disk, vhead, replayVars, writeVars, readVars, lsm, gc>>

\* walCleaner, deleteLogFile(lf) for the file taken out of the file map.
WcDelete ==
    /\ wc.pc = "delete"
    /\ CanLock(walFile, Head(wc.fids))
    /\ disk' = [disk EXCEPT ![walFile] = RemoveKey(@, Head(wc.fids))]
    /\ wc' = [wc EXCEPT !.pc = "loop", !.fids = Tail(@),
                        !.log = Append(@, [hFid |-> wc.hFid,
                                           fid |-> Head(wc.fids)])]
    /\ UNCHANGED <<opt, lw, vhead, replayVars, writeVars, readVars, lsm, gc>>

\* Close: vlog.wc.closer.SignalAndWait(), the signal.
CloseSignal ==
    /\ bg.state = "open" /\ op.pc = "done"
    /\ ~wc.signalled
    /\ wc' = [wc EXCEPT !.signalled = TRUE]
    /\ UNCHANGED <<diskVars, replayVars, writeVars, readVars, lsm, gc>>

\* walCleaner, case <-wc.closer.HasBeenClosed(): the channel is closed and
\* the cleaner returns.  The nil goes to the local variable wc, the field
\* vlog.wc keeps the cleaner with its closed channel.
WcClose ==
    /\ wc.pc = "select" /\ wc.signalled
    /\ wc' = [wc EXCEPT !.pc = "done", !.closed = TRUE]
    /\ UNCHANGED <<diskVars, replayVars, writeVars, readVars, lsm, gc>>

\* The LSM tree persists a head pointer (db.go): the head of a request that
\* write has returned, not before the head persisted so far.
PersistHead ==
    /\ \E i \in 1..Len(hist.done) :
          LET head == hist.done[i].head
          IN /\ \/ head.Fid > vhead.Fid
                \/ head.Fid = vhead.Fid /\ head.Offset > vhead.Offset
             /\ vhead' = head
    /\ UNCHANGED <<opt, disk, lw, replayVars, writeVars, readVars, gcVars>>

(***************************************************************************)
(* valueLog.open: the replay of the WAL files.                             *)
(***************************************************************************)
\* The offset open passes to replayLog, always 0.
replayOffsetZero(fid, ptr) == 0

\* The offset open passes to replayLog for file fid: after the record the
\* head points to in the file of the head, 0 in any other file.
replayOffset(fid, ptr) ==
    IF fid = ptr.Fid THEN U32(ptr.Offset + ptr.Len) ELSE 0

\* The body of the loop over wfids for one file.
OpenReplayFile ==
    /\ op.pc = "replay"
    /\ op.pos <= Len(op.wfids)
    /\ LET fid == op.wfids[op.pos]
           f == disk[walFile][fid]
           \* openLogFile: lf.open sets lf.size from the file.
           opened == [lw[walFile].filesMap[fid] EXCEPT !.size = U32(f.size)]
           offset == replayOffset(fid, op.ptr)
           r == replayLog(fid, f, offset, lw[walFile].maxFid)
       IN IF fid < op.ptr.Fid
          THEN /\ op' = [op EXCEPT !.pos = @ + 1]
               /\ lw' = [lw EXCEPT ![walFile].filesMap[fid] = opened]
               /\ UNCHANGED <<disk, replayed>>
          ELSE /\ replayed' = replayed \o r.invoked
               /\ IF r.err = "errDeleteVlogFile"
                  THEN /\ lw' = [lw EXCEPT ![walFile].filesMap =
                                     RemoveKey(@, fid)]
                       /\ disk' = [disk EXCEPT ![walFile] = RemoveKey(@, fid)]
                       /\ op' = [op EXCEPT !.pos = @ + 1,
                                           !.res[fid] = [err |-> r.err,
                                               endOffset |-> r.endOffset]]
                  ELSE /\ lw' = [lw EXCEPT ![walFile].filesMap[fid] = opened]
                       /\ disk' = [disk EXCEPT ![walFile][fid] = r.file]
                       /\ op' = [op EXCEPT
                                   !.pos = IF r.err = "nil" THEN @ + 1 ELSE @,
                                   !.pc = IF r.err = "nil" THEN @ ELSE "failed",
                                   !.res[fid] = [err |-> r.err,
                                                 endOffset |-> r.endOffset]]
    /\ UNCHANGED <<opt, vhead, disk0, writeVars, readVars, gcVars>>

\* After the loop: initLastFile(&vlog.wal) seeks to the end of the last WAL
\* file, and the head is moved to the tail.
OpenFinish ==
    /\ op.pc = "replay"
    /\ op.pos > Len(op.wfids)
    /\ LET w == lw[walFile]
           lastOffset == disk[walFile][w.maxFid].size
       IN /\ lw' = [lw EXCEPT ![walFile].writableOffset = U32(lastOffset)]
          /\ vhead' = [Fid |-> w.maxFid, Offset |-> U32(lastOffset), Len |-> 0]
    /\ op' = [op EXCEPT !.pc = "done"]
    /\ UNCHANGED <<opt, disk, replayed, disk0, writeVars, readVars, gcVars>>

(***************************************************************************)
(* Replay specification: a directory with WAL files 0 and 1, one of them   *)
(* with arbitrary content (valid, torn or corrupted), is opened.           *)
(***************************************************************************)
DataKLen == 9
DataVLen == 3

TxnEntry(ts) == Entry("k", ts, DataKLen, BytesValue(1), DataVLen, {bitTxn}, FALSE)
FinEntry(v) == Entry("txn", 0, DataKLen, v, 1, {bitFinTxn}, FALSE)
PlainEntry == Entry("k", 1, DataKLen, BytesValue(1), DataVLen, {}, FALSE)

ReplayShapes ==
    {encodeEntry(TxnEntry(ts), 0) : ts \in 0..MaxTs}
    \cup {encodeEntry(FinEntry(DecValue(ts)), 0) : ts \in 0..MaxTs}
    \cup {encodeEntry(FinEntry(BytesValue(1)), 0), encodeEntry(PlainEntry, 0)}

RECURSIVE SeqsUpTo(_, _)
SeqsUpTo(S, n) ==
    IF n = 0 THEN {<<>>}
    ELSE LET shorter == SeqsUpTo(S, n - 1)
         IN shorter \cup {Append(s, x) : s \in {t \in shorter : Len(t) = n - 1},
                                          x \in S}

\* A file holding recs whose record `bad` (0: none) is damaged: its CRC does
\* not match, or (the last record only) the file ends one byte short.
DamagedFile(recs, bad, how) ==
    IF bad = 0 THEN File(recs, lfHeaderSize + BytesLen(recs))
    ELSE IF how = "crc"
    THEN File([recs EXCEPT ![bad].crcOk = FALSE], lfHeaderSize + BytesLen(recs))
    ELSE File(recs, lfHeaderSize + BytesLen(recs) - 1)

InitReplay ==
    /\ \E truncate, readOnly \in BOOLEAN :
          \* Open clears Truncate when the database is read-only.
          /\ ~(truncate /\ readOnly)
          /\ opt = Options(truncate, readOnly, LargeSegment, ManyEntries,
                           ValueThreshold, MemoryMap, FALSE)
    /\ \E tf \in {0, 1}, recs \in SeqsUpTo(ReplayShapes, MaxRecs) :
       \E bad \in 0..Len(recs), how \in {"crc", "short"} :
          /\ how = "short" => bad = Len(recs) /\ bad # 0
          /\ bad = 0 => how = "crc"
          /\ disk = [ft \in fileTypes |->
                       IF ft = vlogFile THEN NoFiles
                       ELSE [fid \in {0, 1} |->
                               IF fid = tf THEN DamagedFile(recs, bad, how)
                               ELSE File(<<>>, lfHeaderSize)]]
          /\ vhead \in {[Fid |-> 0, Offset |-> 0, Len |-> 0],
                        [Fid |-> 1, Offset |-> 0, Len |-> 0]}
                       \cup {[Fid |-> tf, Offset |-> lfHeaderSize,
                              Len |-> RecLen(recs[1])] : x \in {1} \cap DOMAIN recs}
    \* populateFilesMap has found the two files.
    /\ lw = [ft \in fileTypes |->
               IF ft = vlogFile THEN LogWrapper(NoFiles, 0, 0)
               ELSE LogWrapper([fid \in {0, 1} |-> LogFile(fid, 0, 0)], 1, 0)]
    /\ op = [pc |-> "replay", ptr |-> vhead, wfids |-> <<0, 1>>, pos |-> 1,
             res |-> [fid \in {0, 1} |-> [err |-> "none", endOffset |-> 0]]]
    /\ replayed = <<>>
    /\ disk0 = disk
    /\ wr = WriterIdle /\ hist = HistEmpty
    /\ locks = NoLocks /\ rd = [r \in Readers |-> ReaderIdle] /\ bg = BgIdle
    /\ lsm = LsmEmpty /\ gc = GcIdle /\ wc = WcIdle

NextReplay == OpenReplayFile \/ OpenFinish

SpecReplay == InitReplay /\ [][NextReplay]_vars

(***************************************************************************)
(* Claims about replay.                                                    *)
(***************************************************************************)
IsTxn(r) == bitTxn \in r.meta
IsFin(r) == bitTxn \notin r.meta /\ bitFinTxn \in r.meta

\* recs is a sequence of complete transactions: one or more TXN records of
\* one timestamp closed by a FIN_TXN record whose value is that timestamp.
RECURSIVE CompleteTxns(_)
CompleteTxns(recs) ==
    \/ recs = <<>>
    \/ \E n \in 1..(Len(recs) - 1) :
          /\ \A i \in 1..n : IsTxn(recs[i]) /\ recs[i].ts = recs[1].ts
          /\ IsFin(recs[n + 1])
          /\ recs[n + 1].value = DecValue(recs[1].ts)
          /\ CompleteTxns(SubSeq(recs, n + 2, Len(recs)))

\* Index of the last FIN_TXN record, 0 when there is none.
LastFin(recs) ==
    IF \E i \in 1..Len(recs) : IsFin(recs[i])
    THEN CHOOSE i \in 1..Len(recs) :
            IsFin(recs[i]) /\ \A j \in (i + 1)..Len(recs) : ~IsFin(recs[j])
    ELSE 0

\* An undamaged file: complete transactions, then TXN records without marker.
CommittedThenOpen(f) ==
    /\ f.size = lfHeaderSize + BytesLen(f.recs)
    /\ \A i \in 1..Len(f.recs) : f.recs[i].crcOk
    /\ CompleteTxns(SubSeq(f.recs, 1, LastFin(f.recs)))
    /\ \A i \in (LastFin(f.recs) + 1)..Len(f.recs) : IsTxn(f.recs[i])

\* File fid has been replayed from its header with truncation permitted.
ReplayedFromHeader(fid) ==
    /\ op.res[fid].err # "none"
    /\ opt.Truncate
    /\ fid = op.ptr.Fid => U32(op.ptr.Offset + op.ptr.Len) = 0

\* C1 as stated: after the replay of a WAL file that holds complete
\* transactions followed by TXN records without commit marker, the file ends
\* right after its last FIN_TXN record (after the header when it has none).
C1_EndsAfterLastFin ==
    \A fid \in DOMAIN disk0[walFile] :
       (ReplayedFromHeader(fid) /\ CommittedThenOpen(disk0[walFile][fid]))
       => /\ fid \in DOMAIN disk[walFile]
          /\ disk[walFile][fid].size =
                RecEnd(disk0[walFile][fid].recs, LastFin(disk0[walFile][fid].recs))

\* C1 amended: the file ends right after its last FIN_TXN record when it has
\* one, or when it is the max-fid file (then it is re-bootstrapped to its
\* header); a file below max fid with no complete transaction and at least
\* one open TXN record is reported errDeleteVlogFile and removed by open.
C1_EndsAfterLastFinOrDeleted ==
    \A fid \in DOMAIN disk0[walFile] :
       LET f0 == disk0[walFile][fid] IN
       (ReplayedFromHeader(fid) /\ CommittedThenOpen(f0))
       => IF LastFin(f0.recs) = 0 /\ f0.recs # <<>> /\ fid # lw[walFile].maxFid
          THEN /\ op.res[fid].err = "errDeleteVlogFile"
               /\ fid \notin DOMAIN disk[walFile]
               /\ fid \notin DOMAIN lw[walFile].filesMap
          ELSE /\ op.res[fid].err = "nil"
               /\ fid \in DOMAIN disk[walFile]
               /\ disk[walFile][fid].size = RecEnd(f0.recs, LastFin(f0.recs))
               /\ disk[walFile][fid].recs = SubSeq(f0.recs, 1, LastFin(f0.recs))

\* A file with a committed transaction and an open one was cut back.
C1_Witness ==
    \E fid \in DOMAIN disk0[walFile] \cap DOMAIN disk[walFile] :
       LET f0 == disk0[walFile][fid] IN
       /\ ReplayedFromHeader(fid) /\ CommittedThenOpen(f0)
       /\ LastFin(f0.recs) # 0 /\ LastFin(f0.recs) < Len(f0.recs)
       /\ disk[walFile][fid].size < f0.size

\* Record i of recs is a TXN record whose transaction is committed in recs.
CommittedAt(recs, i) ==
    \E j \in (i + 1)..Len(recs) :
       /\ IsFin(recs[j]) /\ recs[j].value = DecValue(recs[i].ts)
       /\ \A k \in i..(j - 1) : IsTxn(recs[k]) /\ recs[k].ts = recs[i].ts

\* The offset at which open starts the replay of file fid.
ReplayStart(fid) ==
    LET offset == IF fid = op.ptr.Fid THEN U32(op.ptr.Offset + op.ptr.Len)
                  ELSE 0
    IN IF offset = 0 THEN lfHeaderSize ELSE offset

InvokedFor(fid) ==
    LET OfFile(inv) == inv.fid = fid IN SelectSeq(replayed, OfFile)

\* C2 as stated: replayFn is never invoked for a TXN record of a trailing
\* transaction that has no commit marker.
C2_OnlyCommittedInvoked ==
    \A k \in 1..Len(replayed) :
       LET inv == replayed[k]
           f0 == disk0[walFile][inv.fid]
       IN (CommittedThenOpen(f0) /\ IsTxn(inv))
          => CommittedAt(f0.recs, RecAt(f0.recs, inv.offset))

\* C2 amended: replayFn is invoked for the records of the file in order,
\* from the start offset up to where iterate stops, the TXN records of a
\* trailing transaction without commit marker included; only the valid end
\* offset excludes them: every record before it is handed over, and every
\* record handed over at or after it carries the TXN bit.
C2_InvokedUpToStop ==
    \A fid \in DOMAIN disk0[walFile] :
       LET f0 == disk0[walFile][fid]
           invs == InvokedFor(fid)
           endOffset == op.res[fid].endOffset
       IN op.res[fid].err \in {"nil", "errDeleteVlogFile", "ErrTruncateNeeded"}
          => /\ \A k \in 1..Len(invs) :
                   LET i == RecAt(f0.recs, invs[k].offset) IN
                   /\ invs[k].offset =
                         IF k = 1 THEN ReplayStart(fid)
                         ELSE invs[k - 1].offset + invs[k - 1].len
                   /\ i # 0
                   /\ Invocation(fid, f0.recs[i], invs[k].offset) = invs[k]
                   /\ f0.recs[i].crcOk
                   /\ invs[k].offset >= endOffset => IsTxn(invs[k])
             /\ \A i \in 1..Len(f0.recs) :
                   (ReplayStart(fid) <= RecOff(f0.recs, i)
                      /\ RecOff(f0.recs, i) < endOffset)
                   => \E k \in 1..Len(invs) : invs[k].offset = RecOff(f0.recs, i)

\* replayFn got the TXN record of a transaction that has no commit marker.
C2_Witness ==
    \E k \in 1..Len(replayed) :
       LET inv == replayed[k]
           f0 == disk0[walFile][inv.fid]
       IN /\ CommittedThenOpen(f0) /\ IsTxn(inv)
          /\ ~CommittedAt(f0.recs, RecAt(f0.recs, inv.offset))
          /\ inv.offset >= op.res[inv.fid].endOffset
          /\ op.res[inv.fid].err = "nil"

(***************************************************************************)
(* Write specification: a database opened on an empty directory is written *)
(* to in batches of transactional requests, and opened again afterwards.   *)
(***************************************************************************)
\* The length of the value of an entry of each kind.
VLenOf(kind) ==
    IF kind = "big" THEN VBig ELSE IF kind = "mid" THEN VMid ELSE VSmall

\* Entry j of the transaction committed at ts.
DataEntry(kind, ts, j) ==
    Entry(j, ts, DataKLen, BytesValue(<<ts, j>>), VLenOf(kind), {bitTxn},
          kind = "skip")
\* The commit marker of the transaction: its value is the decimal ts.
CommitEntry(ts) ==
    Entry("txn", ts, DataKLen, DecValue(ts), 1, {bitFinTxn}, FALSE)

\* The request of a transaction: its entries, then its commit marker.
TxnRequest(kinds, ts) ==
    Request([j \in 1..Len(kinds) |-> DataEntry(kinds[j], ts, j)]
            \o <<CommitEntry(ts)>>)

\* A batch: one request per shape, with consecutive commit timestamps.
Batch(shapes, ts) ==
    [k \in 1..Len(shapes) |-> TxnRequest(shapes[k], ts + k - 1)]

WriteKinds == {"small", "big", "skip"}
WriteShapes == SeqsUpTo(WriteKinds, MaxEntriesPerReq) \ {<<>>}
WriteBatches == SeqsUpTo(WriteShapes, MaxReqs) \ {<<>>}

\* populateFilesMap and the part of open before the replay loop, for one
\* file type: every file found becomes a logFile; value log files are
\* opened and mapped, and the last one becomes the writable file.
populateFilesMap(ft) ==
    LET fids == DOMAIN disk[ft]
        maxFid == MaxOf(fids)
        opened(fid) ==
            IF ft = walFile THEN LogFile(fid, 0, 0)
            ELSE LET lf == init([LogFile(fid, 0, 0) EXCEPT
                                    !.size = U32(disk[ft][fid].size)],
                                ft, disk[ft][fid])
                 IN IF fid = maxFid
                    THEN mmap(lf, ft, 2 * opt.ValueLogFileSize) ELSE lf
    IN LogWrapper([fid \in fids |-> opened(fid)], maxFid,
                  IF ft = vlogFile /\ fids # {}
                  THEN U32(disk[ft][maxFid].size) ELSE 0)

\* The process ends after write has returned and the database is opened
\* again with a zero head pointer: every WAL file is replayed from its
\* header.
Reopen ==
    /\ wr.pc = "idle" /\ op.pc = "done"
    /\ ~hist.reopened /\ hist.nwrites > 0
    /\ \A r \in Readers : rd[r].pc = "idle"
    /\ bg.state = "open"
    /\ lw' = [ft \in fileTypes |-> populateFilesMap(ft)]
    /\ op' = [pc |-> "replay", ptr |-> zeroVP,
              wfids |-> SortedSeq(DOMAIN disk[walFile]), pos |-> 1,
              res |-> [fid \in DOMAIN disk[walFile] |->
                         [err |-> "none", endOffset |-> 0]]]
    /\ replayed' = <<>>
    /\ disk0' = disk
    /\ hist' = [hist EXCEPT !.reopened = TRUE, !.result = "none"]
    /\ locks' = NoLocks
    /\ UNCHANGED <<opt, disk, vhead, wr, rd, bg, gcVars>>

\* The state open leaves on an empty directory: WAL file 0 with its header.
FreshDisk ==
    [ft \in fileTypes |->
       IF ft = vlogFile THEN NoFiles ELSE [fid \in {0} |-> bootstrap]]
FreshWrappers ==
    [ft \in fileTypes |->
       IF ft = vlogFile THEN LogWrapper(NoFiles, 0, 0)
       ELSE LogWrapper([fid \in {0} |-> LogFile(0, lfHeaderSize, 0)], 0,
                       lfHeaderSize)]
\* The database after open, with the history h.
FreshOpenWith(h) ==
    /\ disk = FreshDisk
    /\ lw = FreshWrappers
    /\ vhead = [Fid |-> 0, Offset |-> lfHeaderSize, Len |-> 0]
    /\ op = [pc |-> "done", ptr |-> zeroVP, wfids |-> <<0>>, pos |-> 2,
             res |-> [fid \in {0} |->
                        [err |-> "nil", endOffset |-> lfHeaderSize]]]
    /\ replayed = <<>>
    /\ disk0 = disk
    /\ wr = WriterIdle /\ hist = h
    /\ locks = NoLocks /\ rd = [r \in Readers |-> ReaderIdle] /\ bg = BgIdle
    /\ lsm = LsmEmpty /\ gc = GcIdle /\ wc = WcIdle

FreshOpen == FreshOpenWith(HistEmpty)

InitWrite ==
    /\ \E sz \in {<<SmallSegment, ManyEntries>>, <<LargeSegment, FewEntries>>} :
          opt = Options(TRUE, FALSE, sz[1], sz[2], ValueThreshold, MemoryMap,
                        FALSE)
    /\ FreshOpen

NextWrite ==
    \/ \E shapes \in WriteBatches : WriteBegin(Batch(shapes, hist.nextTs))
    \/ WriteRequest
    \/ WriteToDisk
    \/ WriteRotateVlog
    \/ WriteRotateWal
    \/ Reopen
    \/ OpenReplayFile
    \/ OpenFinish

SpecWrite == InitWrite /\ [][NextWrite]_vars

(***************************************************************************)
(* Read specification: a database opened on an empty directory is written *)
(* to while readers resolve value pointers, iterators come and go, GC      *)
(* rewrites finish, and dropAll or Close runs.                             *)
(***************************************************************************)
ReadBatches == {<<<<"mid">>>>, <<<<"big">>>>}

\* The non-zero value pointers write has returned, with their entries.
Returned ==
    {[vp |-> hist.done[i].Ptrs[j], e |-> hist.done[i].Entries[j]] :
        <<i, j>> \in {ij \in (1..Len(hist.done)) \X (1..(MaxEntriesPerReq + 1)) :
                         /\ ij[2] <= Len(hist.done[ij[1]].Ptrs)
                         /\ hist.done[ij[1]].Ptrs[ij[2]] # zeroVP}}

\* The pointers readers ask for: those write has returned, one at the
\* written offset of the writable file, one into a file that is not there.
ReadPointers ==
    {x.vp : x \in Returned}
    \cup {[Fid |-> lw[vlogFile].maxFid,
           Offset |-> lw[vlogFile].writableOffset, Len |-> 1],
          [Fid |-> lw[vlogFile].maxFid + 1, Offset |-> lfHeaderSize,
           Len |-> 1]}

InitRead ==
    /\ \E sz \in {<<SmallSegment, ManyEntries>>, <<LargeSegment, FewEntries>>},
          mode \in {FileIO, MemoryMap} :
          opt = Options(TRUE, FALSE, sz[1], sz[2], ValueThreshold, mode, TRUE)
    /\ FreshOpen

NextRead ==
    \/ \E shapes \in ReadBatches : WriteBegin(Batch(shapes, hist.nextTs))
    \/ WriteRequest
    \/ WriteToDisk
    \/ WriteRotateVlog
    \/ WriteRotateWal
    \/ \E r \in Readers, vp \in ReadPointers : ReadBegin(r, vp)
    \/ \E r \in Readers : ReadRLock(r)
    \/ \E r \in Readers : ReadBytes(r)
    \/ \E r \in Readers : ReadDone(r)
    \/ IterOpen
    \/ IterClose
    \/ IterDeleteFiles
    \/ \E fid \in DOMAIN lw[vlogFile].filesMap : RewriteDone(fid)
    \/ \E fid \in bg.deleting : DeleteDetached(fid)
    \/ DropAllBegin
    \/ \E fid \in bg.todo : DropAllDelete(fid)
    \/ DropAllFinish
    \/ \E fid \in DOMAIN lw[vlogFile].filesMap : CloseFile(fid)
    \/ CloseFinish

SpecRead == InitRead /\ [][NextRead]_vars

(***************************************************************************)
(* Sync specification: a database opened on an empty directory, with or   *)
(* without SyncWrites and with small or large segments, is written to in   *)
(* batches of transactional requests; a call on a file or on the directory *)
(* can fail while a log file is rotated.                                   *)
(***************************************************************************)
SyncBatches == {<<<<"mid">>>>, <<<<"big">>>>, <<<<"big", "mid">>>>}

InitSync ==
    /\ \E sync \in BOOLEAN, size \in {SmallSegment, LargeSegment} :
          opt = [Options(TRUE, FALSE, size, ManyEntries, ValueThreshold,
                         MemoryMap, FALSE) EXCEPT !.SyncWrites = sync]
    /\ FreshOpenWith(HistTraced)

NextSync ==
    \/ \E shapes \in SyncBatches : WriteBegin(Batch(shapes, hist.nextTs))
    \/ WriteRequest
    \/ WriteToDisk
    \/ WriteRotateVlog
    \/ WriteRotateWal
    \/ \E ft \in fileTypes, call \in RotateCalls : WriteRotateFails(ft, call)

SpecSync == InitSync /\ [][NextSync]_vars

(***************************************************************************)
(* WAL cleaner specification: a database whose directory holds WAL files  *)
(* 0..n is open with a persisted head in one of them; it is written to,   *)
(* the head moves on, the cleaner deletes files and Close shuts it down.   *)
(***************************************************************************)
MaxWalFid == 2

InitWal ==
    /\ opt = Options(TRUE, FALSE, SmallSegment, ManyEntries, ValueThreshold,
                     FileIO, FALSE)
    /\ \E n \in 0..MaxWalFid, h \in 0..MaxWalFid :
          /\ h <= n
          /\ disk = [ft \in fileTypes |->
                       IF ft = vlogFile THEN NoFiles
                       ELSE [fid \in 0..n |-> bootstrap]]
          /\ lw = [ft \in fileTypes |->
                     IF ft = vlogFile THEN LogWrapper(NoFiles, 0, 0)
                     ELSE LogWrapper([fid \in 0..n |->
                                         LogFile(fid, lfHeaderSize, 0)],
                                     n, lfHeaderSize)]
          /\ vhead = [Fid |-> h, Offset |-> lfHeaderSize, Len |-> 0]
          /\ op = [pc |-> "done", ptr |-> vhead, wfids |-> SortedSeq(0..n),
                   pos |-> n + 2,
                   res |-> [fid \in 0..n |->
                              [err |-> "nil", endOffset |-> lfHeaderSize]]]
    /\ replayed = <<>>
    /\ disk0 = disk
    /\ wr = WriterIdle /\ hist = HistEmpty
    /\ locks = NoLocks /\ rd = [r \in Readers |-> ReaderIdle] /\ bg = BgIdle
    /\ lsm = LsmEmpty /\ gc = GcIdle /\ wc = WcIdle

NextWal ==
    \/ \E shapes \in ReadBatches : WriteBegin(Batch(shapes, hist.nextTs))
    \/ WriteRequest
    \/ WriteToDisk
    \/ WriteRotateVlog
    \/ WriteRotateWal
    \/ PersistHead
    \/ WcReceive
    \/ WcTake
    \/ WcDelete
    \/ CloseSignal
    \/ WcClose

SpecWal == InitWal /\ [][NextWal]_vars

(***************************************************************************)
(* The LSM tree under updates, and discardEntry applied to the records of  *)
(* the value log.  lsm.recs holds the keys with the move prefix that were  *)
(* stored, with their versions: with the keys committed so far they are    *)
(* the keys of the records of the value log.  lsm.last is the last call    *)
(* of discardEntry with its arguments and its result and lsm.obs the first *)
(* record for which a call in rewrite has returned true.                   *)
(***************************************************************************)
LsmKeys == 1..NumKeys
Db(err) == [kv |-> lsm.kv, now |-> lsm.now, getErr |-> err]
SomeVP == [Fid |-> 0, Offset |-> lfHeaderSize, Len |-> 1]

\* The key of a record of the value log.
IsRecord(k) ==
    IF HasMovePrefix(k[1]) THEN k \in lsm.recs ELSE k[2] < lsm.nextTs

\* A transaction sets a key to a large value or deletes it at a new commit
\* timestamp; the value goes to the value log and the LSM tree stores its
\* pointer.
LsmPut(key) ==
    /\ lsm.nextTs <= MaxLsmTs
    /\ \E meta \in {{bitValuePointer}, {bitDelete}}, exp \in {0, MaxNow} :
          /\ bitValuePointer \notin meta => exp = 0
          /\ lsm' = [lsm EXCEPT
                       !.kv = lsmSet(@, [x \in {<<key, lsm.nextTs>>} |->
                                 ValueStruct(meta,
                                     IF bitValuePointer \in meta
                                     THEN SomeVP ELSE zeroVP,
                                     exp, lsm.nextTs)]),
                       !.nextTs = @ + 1,
                       !.last = <<>>]
    /\ UNCHANGED <<diskVars, replayVars, writeVars, readVars, gc, wc>>

\* Time passes.
LsmTick ==
    /\ lsm.now < MaxNow
    /\ lsm' = [lsm EXCEPT !.now = @ + 1, !.last = <<>>]
    /\ UNCHANGED <<diskVars, replayVars, writeVars, readVars, gc, wc>>

\* A compaction drops a version that a newer version of the key shadows,
\* or a deleted or expired version that has no older version below it.
LsmCompact(k) ==
    /\ k \in DOMAIN lsm.kv
    /\ \/ \E x \in DOMAIN lsm.kv : x[1] = k[1] /\ x[2] > k[2]
       \/ /\ isDeletedOrExpired(lsm.kv[k].Meta, lsm.kv[k].ExpiresAt, lsm.now)
          /\ ~\E x \in DOMAIN lsm.kv : x[1] = k[1] /\ x[2] < k[2]
    /\ lsm' = [lsm EXCEPT !.kv = [x \in DOMAIN @ \ {k} |-> @[x]],
                          !.last = <<>>]
    /\ UNCHANGED <<diskVars, replayVars, writeVars, readVars, gc, wc>>

\* rewrite, for a record that discardEntry keeps: the record is stored
\* again under its key with the move prefix, at the version of the record.
\* A record without the prefix is moved once: rewrite deletes its file.
LsmMove(k) ==
    /\ IsRecord(k)
    /\ ~HasMovePrefix(k[1]) => <<WithMove(k[1]), k[2]>> \notin lsm.recs
    /\ ~discardEntry([key |-> k[1], ts |-> k[2]],
                     lsmGet(lsm.kv, k[1], k[2]), Db(FALSE))
    /\ LET key == IF HasMovePrefix(k[1]) THEN k[1] ELSE WithMove(k[1])
       IN lsm' = [lsm EXCEPT
                    !.kv = lsmSet(@, [x \in {<<key, k[2]>>} |->
                              ValueStruct({bitValuePointer}, SomeVP,
                                          lsm.kv[k].ExpiresAt, k[2])]),
                    !.recs = @ \cup {<<key, k[2]>>},
                    !.last = <<>>]
    /\ UNCHANGED <<diskVars, replayVars, writeVars, readVars, gc, wc>>

\* deleteMoveKeysFor, for the latest version of a key with the move prefix
\* that holds a pointer into the rewritten file, which is there because
\* rewrite has discarded the record: a delete marker is stored at that
\* version.
LsmDeleteMove(k) ==
    /\ k \in DOMAIN lsm.kv /\ HasMovePrefix(k[1])
    /\ ~\E x \in DOMAIN lsm.kv : x[1] = k[1] /\ x[2] > k[2]
    /\ bitValuePointer \in lsm.kv[k].Meta
    /\ discardEntry([key |-> k[1], ts |-> k[2]], lsm.kv[k], Db(FALSE))
    /\ lsm' = [lsm EXCEPT
                 !.kv = lsmSet(@, [x \in {k} |->
                                     ValueStruct({bitDelete}, zeroVP, 0, k[2])]),
                 !.last = <<>>]
    /\ UNCHANGED <<diskVars, replayVars, writeVars, readVars, gc, wc>>

\* The value structs discardEntry is called with for a record: what db.get
\* returns for its key, and the value struct of a commit marker.
VsInputs(k) ==
    {lsmGet(lsm.kv, k[1], k[2]),
     ValueStruct({bitValuePointer, bitFinTxn}, SomeVP, 0, k[2])}

\* rewrite, for one record of the file: vs, err := vlog.db.get(e.Key) and
\* discardEntry(e, vs, vlog.db).
DiscardCall(k, vs, err) ==
    /\ IsRecord(k)
    /\ vs \in VsInputs(k)
    /\ err => vs = lsmGet(lsm.kv, k[1], k[2]) /\ HasMovePrefix(k[1])
    /\ LET e == [key |-> k[1], ts |-> k[2]]
           result == discardEntry(e, vs, Db(err))
       IN lsm' = [lsm EXCEPT
                    !.last = <<[e |-> e, vs |-> vs, err |-> err,
                                result |-> result]>>,
                    !.obs = IF /\ result /\ @ = {}
                               /\ vs = lsmGet(lsm.kv, k[1], k[2])
                            THEN {k} ELSE @]
    /\ UNCHANGED <<diskVars, replayVars, writeVars, readVars, gc, wc>>

(***************************************************************************)
(* Garbage collection of the value log.  gc.garbageCh is the number of     *)
(* tokens in vlog.garbageCh, gc.shut says whether waitOnGC has put its     *)
(* token in, gc.stats is lfDiscardStats.m and gc.task[g] is the call of    *)
(* runGC by caller g: where it is (pc), the files pickLog returned and the *)
(* one at hand, the entries to hand to db.batchSet (wb) and the error      *)
(* returned (res).  gc.rewrote holds the fids of the files whose run of    *)
(* the GC has returned nil.                                                *)
(***************************************************************************)
garbageChSize == 1
\* len(badgerMove) (spec: a 5-byte prefix)
badgerMoveLen == 5

\* A call of runGC that has put its token into garbageCh and not returned.
Running(g) == gc.task[g].pc \notin {"idle", "done", "rejected", "panic"}

\* <-vlog.garbageCh that leaves the token in the channel.
receiveGarbageChNot(ch) == ch

\* <-vlog.garbageCh in the deferred function of runGC.
receiveGarbageCh(ch) == ch - 1

\* What is left of a call of runGC that has ended with res: the file it
\* had at hand and what it had found.
Ended(t, pc, res) ==
    [GcTaskIdle EXCEPT !.pc = pc, !.res = res, !.busy = t.busy,
                       !.fid = t.fid, !.had = t.had]

\* runGC returns res: the deferred function takes the token out.
gcReturn(g, res) ==
    [gc EXCEPT !.garbageCh = receiveGarbageCh(@),
               !.task[g] = Ended(@, "done", res),
               !.rewrote = IF res = "nil" THEN @ \cup {gc.task[g].fid} ELSE @]

\* runGC, the loop over the files after doRunGC has returned err for the
\* file at hand: the next file is tried, and err is returned after the last.
gcNext(g, err) ==
    IF gc.task[g].i < Len(gc.task[g].files)
    THEN [gc EXCEPT !.task[g].pc = "doRunGC", !.task[g].i = @ + 1,
                    !.task[g].wb = <<>>, !.task[g].res = err]
    ELSE gcReturn(g, err)

\* lfDiscardStats.m[fid], zero for a fid that is not in the map.
discardOf(stats, fid) == IF fid \in DOMAIN stats THEN stats[fid] ELSE 0

\* pickLog: the lists of files it can return.  The candidate is the first
\* fid with the largest discard above zero; the random pick is fids[idx]
\* for idx := rand.Intn(len(fids)), then idx = rand.Intn(idx + 1).
pickLog(w, stats) ==
    LET fids == sortedFids(w)
        best == MaxOf({discardOf(stats, fids[i]) : i \in 1..Len(fids)})
        first == CHOOSE i \in 1..Len(fids) :
                    /\ discardOf(stats, fids[i]) = best
                    /\ \A j \in 1..(i - 1) : discardOf(stats, fids[j]) < best
        candidate == IF best > 0 THEN <<fids[first]>> ELSE <<>>
        picks == {idx2 \in 0..(Len(fids) - 1) :
                     \E idx \in 0..(Len(fids) - 1) :
                        IF idx > 0 THEN idx2 \in 0..idx ELSE idx2 = idx}
    IN IF Len(fids) <= 1 THEN {<<>>}
       ELSE {candidate \o <<fids[idx2 + 1]>> : idx2 \in picks}

\* rewrite, the function fe for record i of file fid: the record is to be
\* inserted again when discardEntry keeps it and the LSM tree points to it.
\* The LSM tree holds no commit marker, so that db.get finds nothing for one
\* and discardEntry returns true.
toMove(fid, recs, i) ==
    LET vs == lsmGet(lsm.kv, recs[i].key, recs[i].ts)
    IN /\ bitFinTxn \notin recs[i].meta
       /\ ~discardEntry([key |-> recs[i].key, ts |-> recs[i].ts], vs,
                        Db(FALSE))
       /\ vs.Value.Fid = fid
       /\ vs.Value.Offset = RecOff(recs, i)

\* rewrite: the entries wb collected by the iteration over the file, each
\* under its key with the move prefix and with all meta bits removed.
RECURSIVE movedFrom(_, _, _)
movedFrom(fid, recs, i) ==
    IF i > Len(recs) THEN <<>>
    ELSE (IF toMove(fid, recs, i)
          THEN <<Entry(IF HasMovePrefix(recs[i].key) THEN recs[i].key
                       ELSE WithMove(recs[i].key),
                       recs[i].ts,
                       IF HasMovePrefix(recs[i].key) THEN recs[i].klen
                       ELSE recs[i].klen + badgerMoveLen,
                       recs[i].value, recs[i].vlen, {}, FALSE)>>
          ELSE <<>>) \o movedFrom(fid, recs, i + 1)

\* The latest versions of the keys with the move prefix, which the
\* iterator of deleteMoveKeysFor goes over.
LatestMoveKeys ==
    {k \in DOMAIN lsm.kv :
        /\ HasMovePrefix(k[1])
        /\ ~\E x \in DOMAIN lsm.kv : x[1] = k[1] /\ x[2] > k[2]}

\* deleteMoveKeysFor that deletes the keys that point into a file below fid.
invalidMoveKeysBelow(fid) ==
    {k \in LatestMoveKeys :
        bitValuePointer \in lsm.kv[k].Meta /\ lsm.kv[k].Value.Fid < fid}

\* deleteMoveKeysFor: the keys it deletes, those that point into file fid.
invalidMoveKeys(fid) ==
    {k \in LatestMoveKeys :
        bitValuePointer \in lsm.kv[k].Meta /\ lsm.kv[k].Value.Fid = fid}

\* deleteMoveKeysFor: the entries it hands to db.batchSet.
deleteEntries(fid) ==
    LET ks == SortedPairs(invalidMoveKeys(fid))
    IN [j \in 1..Len(ks) |->
          Entry(ks[j][1], ks[j][2], DataKLen + badgerMoveLen, BytesValue(<<>>),
                0, {bitDelete}, FALSE)]

\* runGC, the select on garbageCh: with the token in, the call goes on to
\* pickLog; with the channel full it returns ErrRejected.
RunGCBegin(g) ==
    /\ bg.state = "open" /\ op.pc = "done"
    /\ ~Running(g)
    /\ \A h \in GcTasks : gc.task[h].pc # "panic"
    /\ gc.calls < MaxGcCalls
    /\ LET busy == \/ \E h \in GcTasks \ {g} : Running(h)
                   \/ gc.shut = "held"
       IN gc' = IF gc.garbageCh < garbageChSize
                THEN [gc EXCEPT !.garbageCh = @ + 1, !.calls = @ + 1,
                                !.task[g] = [GcTaskIdle EXCEPT
                                               !.pc = "pick", !.busy = busy]]
                ELSE [gc EXCEPT !.calls = @ + 1,
                                !.task[g] = [GcTaskIdle EXCEPT
                                               !.pc = "rejected",
                                               !.busy = busy,
                                               !.res = "ErrRejected"]]
    /\ UNCHANGED <<diskVars, replayVars, writeVars, readVars, lsm, wc>>

\* runGC: files := vlog.pickLog(tr); without files it returns ErrNoRewrite.
GcPickLog(g) ==
    /\ gc.task[g].pc = "pick"
    /\ CanRLockFiles(vlogFile)
    /\ \E files \in pickLog(lw[vlogFile], gc.stats) :
          gc' = IF files = <<>> THEN gcReturn(g, "ErrNoRewrite")
                ELSE [gc EXCEPT !.task[g].pc = "doRunGC",
                                !.task[g].files = files, !.task[g].i = 1]
    /\ UNCHANGED <<diskVars, replayVars, writeVars, readVars, lsm, wc>>

\* doRunGC, the deferred function, with the entry of every file taken out
\* whatever doRunGC returns.
doRunGCDeferAlways(stats, fid, err) == [x \in DOMAIN stats \ {fid} |-> stats[x]]

\* doRunGC, the deferred function: the entry of the file is taken out of
\* lfDiscardStats.m if doRunGC returns nil.
doRunGCDefer(stats, fid, err) ==
    IF err = "nil" THEN [x \in DOMAIN stats \ {fid} |-> stats[x]] ELSE stats

\* runGC, one turn of the loop over the files: a file tried before is
\* passed over; doRunGC samples the file at a random place and goes on to
\* rewrite or returns ErrNoRewrite.
GcDoRunGC(g) ==
    /\ gc.task[g].pc = "doRunGC"
    /\ LET t == gc.task[g]
       IN IF t.i > 1 /\ t.files[t.i] = t.files[1]
          THEN gc' = gcNext(g, t.res)
          ELSE \E doRewrite \in BOOLEAN :
                  gc' = IF doRewrite
                        THEN [gc EXCEPT !.task[g].pc = "rewrite",
                                        !.task[g].fid = t.files[t.i]]
                        ELSE [gcNext(g, "ErrNoRewrite") EXCEPT
                                !.stats = doRunGCDefer(@, t.files[t.i],
                                                       "ErrNoRewrite")]
    /\ UNCHANGED <<diskVars, replayVars, writeVars, readVars, lsm, wc>>

\* rewrite up to its calls of db.batchSet: the fid must be below maxFid;
\* the file is iterated and the entries to insert again are collected.  A
\* failed assertion ends the call, and no other call begins after it.
GcRewrite(g) ==
    /\ gc.task[g].pc = "rewrite"
    /\ CanRLockFiles(vlogFile)
    /\ LET fid == gc.task[g].fid
           wb == movedFrom(fid, disk[vlogFile][fid].recs, 1)
       IN gc' = IF ~(fid < lw[vlogFile].maxFid)
                THEN [gc EXCEPT !.garbageCh = receiveGarbageCh(@),
                                !.task[g] = Ended(@, "panic",
                                                  "fid to move >= maxFid")]
                ELSE IF fid \notin DOMAIN disk[vlogFile]
                THEN gcNext(g, "iterate")
                ELSE [gc EXCEPT
                        !.task[g].pc = IF wb = <<>> THEN "remove"
                                       ELSE "batchSet",
                        !.task[g].wb = wb, !.task[g].after = "remove",
                        !.task[g].had =
                            \E k \in DOMAIN lsm.kv :
                               /\ HasMovePrefix(k[1])
                               /\ bitValuePointer \in lsm.kv[k].Meta
                               /\ lsm.kv[k].Value.Fid = fid]
    /\ UNCHANGED <<diskVars, replayVars, writeVars, readVars, lsm, wc>>

\* db.batchSet(wb): the entries go to the writer as one request.
GcBatchSet(g) ==
    /\ gc.task[g].pc = "batchSet"
    /\ lsm.applied = hist.nwrites
    /\ Submit(<<Request(gc.task[g].wb)>>)
    /\ gc' = [gc EXCEPT !.task[g].pc = "written"]
    /\ UNCHANGED <<lsm, wc>>

\* The value struct the LSM tree stores for entry j of a written request.
StoredFor(b, j) ==
    LET e == b.Entries[j]
    IN IF shouldWriteValueToLSM(e)
       THEN ValueStruct(e.meta, zeroVP, 0, e.ts)
       ELSE ValueStruct(e.meta \cup {bitValuePointer}, b.Ptrs[j], 0, e.ts)

\* The entries of a request that go into the LSM tree: all but the commit
\* marker.
ToStore(b) == {j \in 1..Len(b.Entries) : bitFinTxn \notin b.Entries[j].meta}

\* db.writeRequests after vlog.write has returned (db.go): the entries of
\* the requests go into the LSM tree; db.batchSet returns to rewrite, or to
\* deleteMoveKeysFor, with which runGC returns.
WriteToLSM ==
    /\ wr.pc = "idle" /\ lsm.applied < hist.nwrites
    /\ hist.result \in {"ok", "rejected"}
    /\ LET stored ==
              {<<i, j>> \in (1..Len(wr.reqs)) \X (1..(MaxEntriesPerReq + 1)) :
                  j \in ToStore(wr.reqs[i])}
           put == [k \in {<<wr.reqs[x[1]].Entries[x[2]].key,
                            wr.reqs[x[1]].Entries[x[2]].ts>> : x \in stored} |->
                     LET x == CHOOSE x \in stored :
                                 k = <<wr.reqs[x[1]].Entries[x[2]].key,
                                       wr.reqs[x[1]].Entries[x[2]].ts>>
                     IN StoredFor(wr.reqs[x[1]], x[2])]
       IN lsm' = [lsm EXCEPT
                    !.applied = @ + 1,
                    !.kv = IF hist.result = "ok" THEN lsmSet(@, put) ELSE @,
                    !.nextTs = hist.nextTs]
    /\ gc' = IF \E g \in GcTasks : gc.task[g].pc = "written"
             THEN LET g == CHOOSE g \in GcTasks : gc.task[g].pc = "written"
                  IN IF hist.result = "ok" /\ gc.task[g].after = "remove"
                     THEN [gc EXCEPT !.task[g].pc = "remove",
                                     !.task[g].wb = <<>>]
                     ELSE IF hist.result = "ok"
                     THEN gcReturn(g, "nil")
                     ELSE IF gc.task[g].after = "remove"
                     THEN gcNext(g, "batchSet")
                     ELSE gcReturn(g, "batchSet")
             ELSE gc
    /\ UNCHANGED <<diskVars, replayVars, writeVars, readVars, wc>>

\* rewrite, "Remove the older file now".
GcRemove(g) ==
    /\ gc.task[g].pc = "remove"
    /\ LET fid == gc.task[g].fid
       IN IF fid \notin DOMAIN lw[vlogFile].filesMap
          THEN /\ CanLockFiles(vlogFile)
               /\ gc' = gcNext(g, "Unable to find fid")
               /\ UNCHANGED <<lw, bg>>
          ELSE /\ removeOlderFile(fid)
               /\ gc' = [gc EXCEPT !.task[g].pc = "removed"]
    /\ UNCHANGED <<opt, disk, vhead, replayVars, writeVars, locks, rd, lsm, wc>>

\* runGC after rewrite has returned nil (it has deleted the file unless it
\* left it to the last iterator): doRunGC takes the file out of the discard
\* statistics and deleteMoveKeysFor collects the move keys to delete.
GcDeleteMoveKeys(g) ==
    /\ gc.task[g].pc = "removed"
    /\ gc.task[g].fid \notin bg.deleting
    /\ LET fid == gc.task[g].fid
           result == deleteEntries(fid)
           cleared == [gc EXCEPT !.stats = doRunGCDefer(@, fid, "nil")]
       IN gc' = IF result = <<>>
                THEN [cleared EXCEPT !.garbageCh = receiveGarbageCh(@),
                                     !.task[g] = Ended(@, "done", "nil"),
                                     !.rewrote = @ \cup {fid}]
                ELSE [cleared EXCEPT !.task[g].pc = "batchSet",
                                     !.task[g].wb = result,
                                     !.task[g].after = "return"]
    /\ UNCHANGED <<diskVars, replayVars, writeVars, readVars, lsm, wc>>

\* waitOnGC after lc has been closed: its token goes into garbageCh as
\* soon as there is room, and stays there.
WaitOnGC ==
    /\ gc.shut = "no"
    /\ gc.garbageCh < garbageChSize
    /\ gc' = [gc EXCEPT !.garbageCh = @ + 1, !.shut = "held"]
    /\ UNCHANGED <<diskVars, replayVars, writeVars, readVars, lsm, wc>>

\* flushDiscardStats, mergeStats: a compaction has reported discarded
\* bytes of a value log file.
MergeStats(fid) ==
    /\ fid \in DOMAIN lw[vlogFile].filesMap
    /\ discardOf(gc.stats, fid) < MaxDiscard
    /\ Cardinality(DOMAIN gc.stats \cup {fid}) <= MaxStatFiles
    /\ gc' = [gc EXCEPT !.stats = PutKey(@, fid, discardOf(gc.stats, fid) + 1)]
    /\ UNCHANGED <<diskVars, replayVars, writeVars, readVars, lsm, wc>>

\* A compaction of the LSM tree while the value log is in use.
Compact(k) ==
    /\ lsm.applied = hist.nwrites
    /\ LsmCompact(k)

(***************************************************************************)
(* GC specification: a database opened on an empty directory is written   *)
(* to, one large value per transaction; the writes reach the LSM tree;    *)
(* two callers run the value log GC while iterators come and go and the   *)
(* database shuts the GC down.                                             *)
(***************************************************************************)
GcBatches == {<<<<"big">>>>}

\* An iterator is opened while the GC runs.
GcIterOpen == incrIteratorCount(MaxGcIterators)

\* A transaction of the user is written once the LSM tree holds what was
\* written before.
GcUserWrite(reqs, most) ==
    /\ gc.writes < most
    /\ lsm.applied = hist.nwrites
    /\ Submit(reqs)
    /\ gc' = [gc EXCEPT !.writes = @ + 1]
    /\ UNCHANGED <<lsm, wc>>

InitGC ==
    /\ opt = Options(TRUE, FALSE, SmallSegment, ManyEntries, ValueThreshold,
                     FileIO, FALSE)
    /\ FreshOpen

NextGC ==
    \/ \E shapes \in GcBatches : GcUserWrite(Batch(shapes, hist.nextTs), MaxGcWrites)
    \/ WriteRequest
    \/ WriteToDisk
    \/ WriteRotateVlog
    \/ WriteRotateWal
    \/ WriteToLSM
    \/ \E fid \in DOMAIN lw[vlogFile].filesMap : MergeStats(fid)
    \/ \E g \in GcTasks : RunGCBegin(g)
    \/ \E g \in GcTasks : GcPickLog(g)
    \/ \E g \in GcTasks : GcDoRunGC(g)
    \/ \E g \in GcTasks : GcRewrite(g)
    \/ \E g \in GcTasks : GcBatchSet(g)
    \/ \E g \in GcTasks : GcRemove(g)
    \/ \E g \in GcTasks : GcDeleteMoveKeys(g)
    \/ WaitOnGC
    \/ GcIterOpen
    \/ IterClose
    \/ IterDeleteFiles
    \/ \E fid \in bg.deleting : DeleteDetached(fid)

SpecGC == InitGC /\ [][NextGC]_vars

\* The fids of the value log files there can be: each write and each run of
\* the GC rotates the value log at most once.
GcFids == 0..(MaxGcWrites + MaxGcCalls)

\* The GC specification with the progress the Go scheduler gives to a
\* goroutine that can run: a call of decrIteratorCount that has brought the
\* count to zero goes on to take filesLock and the files, and a call of
\* deleteLogFile goes on to delete its file.
SpecGCFair ==
    /\ SpecGC
    /\ WF_vars(IterDeleteFiles)
    /\ \A fid \in GcFids : WF_vars(DeleteDetached(fid))

(***************************************************************************)
(* Move key specification: a database opened on an empty directory is     *)
(* written to, each transaction a new version of one key with a large     *)
(* value; the LSM tree is compacted and the compactions report discarded  *)
(* bytes; one caller runs the value log GC again and again, while         *)
(* iterators come and go.                                                  *)
(***************************************************************************)
Collector == "gc1"

NextMove ==
    \/ \E shapes \in GcBatches :
          GcUserWrite(Batch(shapes, hist.nextTs), MaxMoveWrites)
    \/ WriteRequest
    \/ WriteToDisk
    \/ WriteRotateVlog
    \/ WriteRotateWal
    \/ WriteToLSM
    \/ \E k \in DOMAIN lsm.kv : Compact(k)
    \/ RunGCBegin(Collector)
    \/ GcPickLog(Collector)
    \/ GcDoRunGC(Collector)
    \/ GcRewrite(Collector)
    \/ GcBatchSet(Collector)
    \/ GcRemove(Collector)
    \/ GcDeleteMoveKeys(Collector)
    \/ IterOpen
    \/ IterClose
    \/ IterDeleteFiles
    \/ \E fid \in bg.deleting : DeleteDetached(fid)

SpecMove == InitGC /\ [][NextMove]_vars

AllLsmKeys == LsmKeys \cup {WithMove(key) : key \in LsmKeys}
AllLsmVersions == AllLsmKeys \X (1..MaxLsmTs)

InitDiscard ==
    /\ opt = Options(TRUE, FALSE, SmallSegment, ManyEntries, ValueThreshold,
                     FileIO, FALSE)
    /\ FreshOpen

NextDiscard ==
    \/ \E key \in LsmKeys : LsmPut(key)
    \/ LsmTick
    \/ \E k \in AllLsmVersions : LsmCompact(k)
    \/ \E k \in AllLsmVersions : LsmMove(k)
    \/ \E k \in AllLsmVersions : LsmDeleteMove(k)
    \/ \E k \in AllLsmVersions, err \in BOOLEAN :
          \E vs \in VsInputs(k) : DiscardCall(k, vs, err)

SpecDiscard == InitDiscard /\ [][NextDiscard]_vars

(***************************************************************************)
(* Claims about write.                                                     *)
(***************************************************************************)
\* The entries that completed calls of write have written to the WAL, in
\* write order, as (key, ts, value, meta).
RECURSIVE WrittenEntries(_)
WrittenEntries(reqs) ==
    IF reqs = <<>> THEN <<>>
    ELSE LET NotSkipped(e) == ~e.skipVlog
             es == SelectSeq(Head(reqs).Entries, NotSkipped)
         IN [j \in 1..Len(es) |-> [key |-> es[j].key, ts |-> es[j].ts,
                                   value |-> es[j].value, meta |-> es[j].meta]]
            \o WrittenEntries(Tail(reqs))
ReplayedEntries ==
    [k \in 1..Len(replayed) |-> [key |-> replayed[k].key, ts |-> replayed[k].ts,
                                 value |-> replayed[k].value,
                                 meta |-> replayed[k].meta]]
NoSkippedEntries(reqs) ==
    \A i \in 1..Len(reqs) : \A j \in 1..Len(reqs[i].Entries) :
       ~reqs[i].Entries[j].skipVlog

\* C3: after batches of transactional requests without skipped entries have
\* been written and the WAL files are replayed from their headers in fid
\* order, replayFn has been invoked for exactly the written entries, once
\* each and in write order, and every file's end offset is its size: nothing
\* is truncated.
C3_ReplayReturnsWrites ==
    (hist.reopened /\ op.pc = "done" /\ NoSkippedEntries(hist.done))
    => /\ ReplayedEntries = WrittenEntries(hist.done)
       /\ \A fid \in DOMAIN disk0[walFile] :
             /\ op.res[fid].err = "nil"
             /\ op.res[fid].endOffset = disk0[walFile][fid].size
       /\ disk[walFile] = disk0[walFile]

\* Two writes that left records in two WAL files have been replayed.
C3_Witness ==
    /\ hist.reopened /\ op.pc = "done" /\ NoSkippedEntries(hist.done)
    /\ Len(hist.done) >= 3
    /\ \E k1, k2 \in 1..Len(replayed) : replayed[k1].fid # replayed[k2].fid

\* C4: all non-skipped entries of a request are written to one WAL file,
\* each of them once, also when a threshold is crossed and the buffer is
\* flushed in the middle of the request.
C4_RequestInOneWalFile ==
    LET placed == hist.placed[walFile] IN
    /\ \A k1, k2 \in 1..Len(placed) :
          placed[k1].req = placed[k2].req
          => /\ placed[k1].fid = placed[k2].fid
             /\ placed[k1].ent = placed[k2].ent => k1 = k2
    /\ \A i \in 1..Len(hist.done) : \A j \in 1..Len(hist.done[i].Entries) :
          LET e == hist.done[i].Entries[j] IN
          ~e.skipVlog => \E k \in 1..Len(placed) :
                            placed[k].req = e.ts /\ placed[k].ent = j

\* A request went on in the same WAL file after the segment size had been
\* crossed and the buffer flushed.
C4_Witness ==
    LET placed == hist.placed[walFile] IN
    \E k1, k2 \in 1..Len(placed) :
       /\ placed[k1].req = placed[k2].req /\ placed[k1].ent < placed[k2].ent
       /\ placed[k1].fid = placed[k2].fid
       /\ placed[k2].offset > opt.ValueLogFileSize
       /\ placed[k1].fid \in DOMAIN disk[walFile]
       /\ RecAt(disk[walFile][placed[k1].fid].recs, placed[k2].offset) # 0

\* C7: when validateWrites rejects a batch, write has changed nothing: no
\* file, no writable offset, entry counter, file map or max fid, and no
\* request's pointer list or head.
C7_RejectedBatchChangesNothing ==
    hist.result = "rejected"
    => /\ wr.pc = "idle" /\ wr.err = "SizeExceeded"
       /\ disk = hist.before.disk
       /\ lw = hist.before.lw
       /\ wr.reqs = hist.before.reqs

\* A batch was rejected for its second request; the first alone would fit.
C7_Witness ==
    /\ hist.result = "rejected"
    /\ Len(wr.reqs) > 1
    /\ validateFrom(hist.before.lw[walFile].writableOffset, <<wr.reqs[1]>>)
          = "nil"
    /\ hist.before.lw[walFile].writableOffset > lfHeaderSize

\* C6 as stated: for every batch that validateWrites accepts, the bytes
\* written to one WAL file never exceed the uint32 maximum, and the
\* assertion of the flush that the WAL offset grows never fails.
C6_WalOffsetNeverWraps ==
    /\ ~(wr.pc = "panic" /\ wr.panicFt = walFile)
    /\ \A fid \in DOMAIN disk[walFile] :
          disk[walFile][fid].size <= maxVlogFileSize

\* The entries of request b that are not skipped, and where entry j of the
\* request went in the WAL.
NonSkipped(b) == {j \in 1..Len(b.Entries) : ~b.Entries[j].skipVlog}
WalPointer(b, j) ==
    LET placed == hist.placed[walFile]
        k == CHOOSE k \in 1..Len(placed) :
                 placed[k].req = b.Entries[j].ts /\ placed[k].ent = j
    IN [Fid |-> placed[k].fid, Offset |-> placed[k].offset,
        Len |-> placed[k].len]

\* C20 as stated: after write, the head of every request is the WAL pointer
\* of the first entry of the request that is not skipped.
C20_HeadIsFirstWalPointer ==
    \A i \in 1..Len(hist.done) :
        LET b == hist.done[i] IN
        NonSkipped(b) # {}
        => b.head = WalPointer(b, CHOOSE j \in NonSkipped(b) :
                                     \A j2 \in NonSkipped(b) : j <= j2)

\* C20 amended: after write, the head of every request is the WAL pointer
\* of the last entry of the request that is not skipped.
C20_HeadIsLastWalPointer ==
    \A i \in 1..Len(hist.done) :
        LET b == hist.done[i] IN
        NonSkipped(b) # {}
        => b.head = WalPointer(b, CHOOSE j \in NonSkipped(b) :
                                     \A j2 \in NonSkipped(b) : j2 <= j)

\* write has returned for a request of three entries that are not skipped,
\* which a flush in the middle of the request has put behind the segment
\* size.
C20_Witness ==
    \E i \in 1..Len(hist.done) :
        LET b == hist.done[i] IN
        /\ Cardinality(NonSkipped(b)) = MaxEntriesPerReq + 1
        /\ b.head.Offset > opt.ValueLogFileSize
        /\ b.head = WalPointer(b, Len(b.Entries))


(***************************************************************************)
(* Claims about Read.                                                      *)
(***************************************************************************)
\* What reader r holds: locks of files, and the shared filesLock.
HeldBy(r) ==
    {h \in locks.lf : h[3] = r}
    \cup {<<vlogFile, h[1]>> : h \in {x \in locks.files[vlogFile] : x[1] = r}}

\* The value log files some reader holds the shared lock of.
ReadLocked == {h[2] : h \in {x \in locks.lf : x[1] = vlogFile /\ x[4] = "R"}}

\* C5: Read of a non-zero value pointer that write has returned for an entry
\* gives the value of that entry, whatever was written and rotated since,
\* when no file of that fid has been removed by GC or dropAll.
C5_ReadReturnsWrittenValue ==
    \A r \in Readers : \A x \in Returned :
        (/\ rd[r].pc = "returned"
         /\ rd[r].vp = x.vp
         /\ x.vp.Fid \notin bg.removed)
        => (rd[r].err = "nil" /\ rd[r].value = x.e.value)

\* A reader has the value of an entry from a file that was rotated since.
C5_Witness ==
    \E r \in Readers : \E x \in Returned :
        /\ rd[r].pc = "returned" /\ rd[r].vp = x.vp
        /\ x.vp.Fid \notin bg.removed
        /\ rd[r].err = "nil" /\ rd[r].value = x.e.value
        /\ x.vp.Fid < lw[vlogFile].maxFid
        /\ hist.nwrites = MaxWrites

\* C8: a value log file that a reader holds the shared lock of is not
\* deleted, truncated, closed or unmapped by any step.
C8_NoChangeUnderSharedLock ==
    [][\A fid \in ReadLocked :
          /\ fid \in DOMAIN disk'[vlogFile]
          /\ disk'[vlogFile][fid].size >= disk[vlogFile][fid].size
          /\ LfObj(fid)'.fd = LfObj(fid).fd
          /\ LfObj(fid)'.fmapLen = LfObj(fid).fmapLen]_vars

\* A reader holds the handle of the writable file while write waits to
\* rotate that file.
C8_Witness ==
    \E r \in Readers :
        /\ rd[r].pc = "returned" /\ rd[r].cb
        /\ wr.pc = "rotateVlog"
        /\ rd[r].vp.Fid = wr.cur[vlogFile]
        /\ <<vlogFile, rd[r].vp.Fid, r, "R">> \in locks.lf

\* C9: after a successful Read, in MemoryMap mode the handle is non-nil and
\* the reader holds the shared lock of the file until it calls the handle;
\* in FileIO mode the handle is nil and the reader holds no lock.
C9_HandleAndLockByMode ==
    \A r \in Readers :
        (rd[r].pc = "returned" /\ rd[r].err = "nil")
        => IF opt.ValueLogLoadingMode = MemoryMap
           THEN /\ rd[r].cb
                /\ HeldBy(r) = {<<vlogFile, rd[r].vp.Fid, r, "R">>}
           ELSE ~rd[r].cb /\ HeldBy(r) = {}

\* A successful Read in MemoryMap mode while dropAll waits for the file.
C9_Witness ==
    \E r \in Readers :
        /\ rd[r].pc = "returned" /\ rd[r].err = "nil" /\ rd[r].cb
        /\ opt.ValueLogLoadingMode = MemoryMap
        /\ bg.state = "dropping" /\ rd[r].vp.Fid \in bg.todo

\* The pointer of reader r, as getFileRLocked saw it, is into a file that is
\* not in the file map, or at or after the written offset of the writable
\* file.
NotInMap(r) == ~rd[r].at.inMap
AtOrAfterOffset(r) ==
    /\ rd[r].at.inMap
    /\ rd[r].vp.Fid = rd[r].at.maxFid
    /\ rd[r].vp.Offset >= rd[r].at.offset

\* C10: Read of a pointer into a file that is not in the file map returns
\* ErrRetry, Read of a pointer at or after the written offset of the
\* writable file returns an error; neither takes the lock of a file, and
\* both return with filesLock released and no handle.
C10_LookupErrorsHoldNothing ==
    \A r \in Readers :
        /\ rd[r].pc \in {"rlock", "locked"}
           => ~NotInMap(r) /\ ~AtOrAfterOffset(r)
        /\ rd[r].pc = "returned"
           => /\ NotInMap(r)
                 => rd[r].err = "ErrRetry" /\ HeldBy(r) = {} /\ ~rd[r].cb
              /\ AtOrAfterOffset(r)
                 => rd[r].err = "InvalidOffset" /\ HeldBy(r) = {} /\ ~rd[r].cb

\* Read has returned for a pointer at the written offset of the writable
\* file, after a rewritten file was taken out of the file map.
C10_Witness ==
    \E r \in Readers :
        /\ rd[r].pc = "returned" /\ AtOrAfterOffset(r)
        /\ rd[r].vp.Offset = rd[r].at.offset
        /\ rd[r].at.offset > lfHeaderSize
        /\ bg.removed # {}

(***************************************************************************)
(* Claims about the WAL cleaner.                                           *)
(***************************************************************************)
\* The cleaner is between two messages and has handled one.
HandledHead == wc.pc \in {"select", "done"} /\ wc.hFid > 0

C19_PurgeAfterShutdownIsNoOp ==
    wc.closed => ~(wr.pc = "panic" /\ wr.err = "send on closed channel")

(***************************************************************************)
(* Claims about discardEntry.                                              *)
(***************************************************************************)
\* A read of the key finds no version, or a deleted or expired one.
NoLiveVersion(key) ==
    LET avs == lsmGet(lsm.kv, key, MaxLsmTs)
    IN avs.Version = 0 \/ isDeletedOrExpired(avs.Meta, avs.ExpiresAt, lsm.now)

\* C15: discardEntry(e, vs) returns true exactly when the version of vs is
\* not the timestamp of e.key, or vs is deleted or expired, or vs has no
\* value pointer bit, or vs has the bit of a commit marker, or e.key has
\* the move prefix and the key without it has no live version.
C15_DiscardIffRules ==
    lsm.last # <<>> =>
       LET o == lsm.last[1]
       IN o.result <=>
             \/ o.vs.Version # ParseTs(o.e)
             \/ isDeletedOrExpired(o.vs.Meta, o.vs.ExpiresAt, lsm.now)
             \/ bitValuePointer \notin o.vs.Meta
             \/ bitFinTxn \in o.vs.Meta
             \/ HasMovePrefix(o.e.key) /\ NoLiveVersion(StripMove(o.e.key))

RunningGC == {g \in GcTasks : Running(g)}

\* A call of runGC has just returned ErrRejected.
Rejects == gc'.calls # gc.calls /\ gc'.garbageCh = gc.garbageCh

\* C11: at most one call of runGC is past garbageCh at any time, and every
\* token in the channel is held by a call that has not yet returned or by
\* waitOnGC, so that every return of a running GC has released its token;
\* a call has returned ErrRejected if and only if, when it was made, another
\* call was in progress or waitOnGC had put its token in, and such a call
\* has picked no file and leaves the files, the file maps and the LSM tree
\* as they are.
C11_OneGCAtATime ==
    /\ [](/\ Cardinality(RunningGC) <= 1
          /\ gc.garbageCh = Cardinality(RunningGC)
                               + (IF gc.shut = "held" THEN 1 ELSE 0)
          /\ \A g \in GcTasks :
                /\ gc.task[g].pc # "idle" =>
                      (gc.task[g].res = "ErrRejected" <=> gc.task[g].busy)
                /\ gc.task[g].res = "ErrRejected" =>
                      gc.task[g].pc = "rejected" /\ gc.task[g].files = <<>>)
    /\ [][Rejects => UNCHANGED <<disk, lw, lsm, bg>>]_vars

\* A call was rejected while another was running, which has returned and
\* released its token.
C11_Witness ==
    \E g, h \in GcTasks :
       /\ gc.task[g].pc = "rejected" /\ gc.task[g].busy
       /\ gc.task[h].pc = "done" /\ gc.task[h].res = "nil"
       /\ gc.garbageCh = 0


\* C17: no call of runGC has the writable file of the value log, the one
\* with fid = maxFid, among the files pickLog has returned, and the
\* assertion of rewrite on the fid to move has not failed.
C17_NeverPicksWritableFile ==
    \A g \in GcTasks :
       /\ \A i \in 1..Len(gc.task[g].files) :
             gc.task[g].files[i] # lw[vlogFile].maxFid
       /\ gc.task[g].pc # "panic"


\* C13: no file of the value log is removed from the disk while the count
\* of active iterators is above zero, and no file that rewrite has left to
\* the last iterator is taken out of the file map while it is.
C13_NoRemovalWhileIterating ==
    [][\A fid \in DOMAIN disk[vlogFile] :
          (\/ fid \notin DOMAIN disk'[vlogFile]
           \/ /\ fid \in SeqRange(lw[vlogFile].filesToBeDeleted)
              /\ fid \in DOMAIN lw[vlogFile].filesMap
              /\ fid \notin DOMAIN lw'[vlogFile].filesMap)
          => lw[vlogFile].numActiveIterators = 0]_vars


\* The steps of decrIteratorCount: its decrement, and its taking of the
\* files to be deleted after a decrement to zero.
Decrements ==
    lw'[vlogFile].numActiveIterators = lw[vlogFile].numActiveIterators - 1
TakesFiles == bg'.zeroed < bg.zeroed

PointersInto(fid) ==
    {k \in DOMAIN lsm.kv :
        bitValuePointer \in lsm.kv[k].Meta /\ lsm.kv[k].Value.Fid = fid}

\* The latest version of a key of the LSM tree, neither deleted nor expired.
LatestLive(k) ==
    /\ ~\E x \in DOMAIN lsm.kv : x[1] = k[1] /\ x[2] > k[2]
    /\ ~isDeletedOrExpired(lsm.kv[k].Meta, lsm.kv[k].ExpiresAt, lsm.now)

SyncedAfter(i) ==
    \/ hist.io[i][4] = "synced"
    \/ \E j \in DOMAIN hist.io :
          /\ j > i
          /\ hist.io[j] = <<"sync", hist.io[i][2], hist.io[i][3], "ok">>

\* C21: when write returns the value pointers, every flush of the WAL or
\* value log buffer to its writable file has been followed by a sync of
\* that file.
C21_FlushIsSynced ==
    (hist.trace /\ hist.result = "ok") =>
        \A i \in DOMAIN hist.io : hist.io[i][1] = "write" => SyncedAfter(i)

\* The calls rotateFile makes before it puts file new of type ft into the
\* file map: the old file is finished, the new one and the directory are
\* made durable.
RotationCalls(ft, old, new) ==
    << <<"sync", ft, old, "ok">>, <<"lock", ft, old, "ok">>,
       <<"munmap", ft, old, "ok">>, <<"truncate", ft, old, "ok">>,
       <<"init", ft, old, "ok">>, <<"unlock", ft, old, "ok">>,
       <<"create", ft, new, "ok">>, <<"bootstrap", ft, new, "ok">>,
       <<"syncDir", ft, new, "ok">>, <<"mmap", ft, new, "ok">> >>

\* The file that a rotation does not get to advertise when the call at
\* position i fails.
NotAdvertised(i) ==
    IF hist.io[i][1] \in {"sync", "munmap", "truncate", "init"}
    THEN hist.io[i][3] + 1
    ELSE hist.io[i][3]

\* C22: a file enters the file map on rotation only after the old file was
\* synced and finished under its exclusive lock, the new file was created
\* with its header and the directory was synced; when a call before that
\* fails, the new fid is not in the file map and maxFid has not moved.
C22_RotationOrder ==
    hist.trace =>
        /\ \A a \in DOMAIN hist.io :
              (hist.io[a][1] = "advertise" /\ hist.io[a][3] > 0) =>
                  /\ a > 10
                  /\ SubSeq(hist.io, a - 10, a - 1)
                        = RotationCalls(hist.io[a][2], hist.io[a][3] - 1,
                                        hist.io[a][3])
                  /\ disk[hist.io[a][2]][hist.io[a][3]].size >= lfHeaderSize
        /\ \A i \in DOMAIN hist.io :
              hist.io[i][4] = "failed" =>
                  /\ NotAdvertised(i) \notin DOMAIN lw[hist.io[i][2]].filesMap
                  /\ lw[hist.io[i][2]].maxFid = NotAdvertised(i) - 1
                  /\ \A j \in DOMAIN hist.io :
                        j > i => hist.io[j][1] \in {"unlock", "remove"}

\* A write rotated one file, and a call failed in the rotation of the other.
C22_Witness ==
    /\ hist.trace
    /\ hist.result = "error"
    /\ \E a \in DOMAIN hist.io : hist.io[a][1] = "advertise" /\ hist.io[a][3] > 0
    /\ \E i \in DOMAIN hist.io : hist.io[i][4] = "failed"


(***************************************************************************)
(* Encryption of records: the bytes of a record, as encodeEntry lays them  *)
(* out and Read takes them apart.  Bytes are scaled down to ByteBits bits. *)
(***************************************************************************)
ByteBits == 2
CrcBits == 16
Bytes == 0..(2^ByteBits - 1)
\* Data keys of the key registry; nilKey stands for no encryption.
nilKey == 0
DataKeys == {1, 2}
\* Most bytes of a value, and the record offsets tried.
MaxValueLen == 2
CryptOffsets == {lfHeaderSize, lfHeaderSize + 7}

\* a XOR b, bit by bit.
RECURSIVE Xor(_, _)
Xor(a, b) ==
    IF a = 0 /\ b = 0 THEN 0
    ELSE ((a + b) % 2) + 2 * Xor(a \div 2, b \div 2)

\* logFile.generateIV(offset): the base IV of the file followed by the
\* offset; the base IV is the same for every record of a file.
generateIV(offset) == offset

\* Byte i of the AES-CTR key stream of a data key and an IV.
KeyStream(key, iv, i) == (5 * key + 3 * iv + 7 * i + 1) % 2^ByteBits

\* y.XORBlockStream / y.XORBlockAllocate: src XORed with the key stream.
XORBlock(src, key, iv) ==
    [i \in 1..Len(src) |-> Xor(src[i], KeyStream(key, iv, i))]

\* crc32 of a byte sequence, as a polynomial hash scaled down to CrcBits
\* bits.
RECURSIVE crc32Sum(_, _)
crc32Sum(h, bytes) ==
    IF bytes = <<>> THEN h
    ELSE crc32Sum((33 * h + Head(bytes) + 1) % 2^CrcBits, Tail(bytes))

\* header.Encode: the lengths of key and value.
headerEncode(e) == <<Len(e.Key), Len(e.Value)>>

\* logFile.encodeEntry on bytes: header, then key and value (encrypted when
\* the file has a data key), then the CRC of all the bytes written before.
encodeEntryBytes(e, key, offset) ==
    LET kv == e.Key \o e.Value
        body == headerEncode(e)
                \o (IF key # nilKey THEN XORBlock(kv, key, generateIV(offset))
                    ELSE kv)
    IN [body |-> body, crc |-> crc32Sum(0, body)]

\* valueLog.Read on the bytes of a record, with the data key the file has
\* when it is read.
ReadValue(buf, key, offset) ==
    LET klen == buf.body[1]
        vlen == buf.body[2]
        stored == SubSeq(buf.body, 3, Len(buf.body))
        kv == IF key # nilKey THEN XORBlock(stored, key, generateIV(offset))
              ELSE stored
    IN IF opt.VerifyValueChecksum /\ crc32Sum(0, buf.body) # buf.crc
       THEN [err |-> "ErrChecksumMismatch", value |-> <<>>]
       ELSE IF Len(kv) < klen + vlen
       THEN [err |-> "Invalid read", value |-> <<>>]
       ELSE [err |-> "nil", value |-> SubSeq(kv, klen + 1, klen + vlen)]

\* The entries encoded: a one-byte key and a value of up to MaxValueLen
\* bytes.
CryptEntries ==
    {[Key |-> <<k>>, Value |-> v] :
        k \in Bytes, v \in SeqsUpTo(Bytes, MaxValueLen) \ {<<>>}}

\* A record is encoded for a file with data key `key` at `offset`.
CryptEncode(r, e, key, offset) ==
    /\ rd[r].pc = "idle"
    /\ rd' = [rd EXCEPT ![r] = [pc |-> "encoded", e |-> e, key |-> key,
                                offset |-> offset,
                                buf |-> encodeEntryBytes(e, key, offset)]]
    /\ UNCHANGED <<diskVars, replayVars, writeVars, locks, bg, gcVars>>

\* The record is read back while the file has data key `key`.
CryptRead(r, key) ==
    /\ rd[r].pc = "encoded"
    /\ rd' = [rd EXCEPT ![r] = [pc |-> "read", e |-> @.e, key |-> @.key,
                                offset |-> @.offset, buf |-> @.buf,
                                readKey |-> key,
                                res |-> ReadValue(@.buf, key, @.offset)]]
    /\ UNCHANGED <<diskVars, replayVars, writeVars, locks, bg, gcVars>>

(***************************************************************************)
(* Encryption specification: on a database opened with checksum            *)
(* verification, records are encoded with or without a data key and read   *)
(* back with the same or another one.                                      *)
(***************************************************************************)
InitCrypt ==
    /\ opt = Options(TRUE, FALSE, LargeSegment, ManyEntries, ValueThreshold,
                     MemoryMap, TRUE)
    /\ FreshOpen

NextCrypt ==
    \/ \E r \in Readers, e \in CryptEntries, key \in DataKeys \cup {nilKey},
          offset \in CryptOffsets : CryptEncode(r, e, key, offset)
    \/ \E r \in Readers, key \in DataKeys \cup {nilKey} : CryptRead(r, key)

SpecCrypt == InitCrypt /\ [][NextCrypt]_vars

\* C23: with checksum verification on, a record encoded with one data key
\* and read with another fails with a checksum error and yields no value.
C23_WrongKeyFailsChecksum ==
    \A r \in Readers :
       (/\ rd[r].pc = "read"
        /\ rd[r].key # nilKey /\ rd[r].readKey # nilKey
        /\ rd[r].readKey # rd[r].key) =>
           /\ rd[r].res.err = "ErrChecksumMismatch"
           /\ rd[r].res.value = <<>>


\* C24: for every batch that validateWrites accepts, the written offset of
\* a value log file stays within uint32: the assertion of the flush never
\* fails for the value log, no value log file grows beyond the uint32
\* maximum, and every value pointer write has returned ends inside its file.
C24_VlogOffsetNeverWraps ==
    /\ ~(wr.pc = "panic" /\ wr.panicFt = vlogFile)
    /\ \A fid \in DOMAIN disk[vlogFile] :
          disk[vlogFile][fid].size <= maxVlogFileSize
    /\ \A x \in Returned :
          x.vp.Fid \in DOMAIN disk[vlogFile] =>
              x.vp.Offset + x.vp.Len <= disk[vlogFile][x.vp.Fid].size


(***************************************************************************)
(* valueLog.rewrite, record by record.  gc holds the locals of one call:   *)
(* the records of the file as iterate yields them (gc.recs, gc.k the next  *)
(* one), wb and size, batchSize and i of the final loop.  gc.looked is the *)
(* value struct db.get returned for each record, gc.sent the batches that  *)
(* db.batchSet has accepted, gc.tooBig the number of batches it has        *)
(* refused with ErrTxnTooBig; it refuses a batch of more than gc.txnMax    *)
(* entries.                                                                *)
(***************************************************************************)
bitDiscardEarlierVersions == "bitDiscardEarlierVersions"
\* batchSize := 1024
initialBatchSize == 1024
\* A value struct whose Value is empty.
emptyValue == <<>>

\* Most records of the file that is rewritten, its fid, and the bytes of
\* each of its records.
MaxRewriteRecs == 3
RewriteFid == 1
RewriteRecSize == 30

\* Record i of the file, with or without the move prefix on its key.
RewriteRec(i, moved) ==
    [key |-> IF moved THEN WithMove(i) ELSE i, ts |-> 1, klen |-> DataKLen,
     value |-> BytesValue(<<i>>), vlen |-> VMid,
     meta |-> {bitDiscardEarlierVersions}, UserMeta |-> i,
     ExpiresAt |-> MaxNow + i,
     offset |-> lfHeaderSize + (i - 1) * RewriteRecSize]

\* What the LSM tree holds for a record: a pointer to the record, to a
\* newer file, to a later offset of the file, to an older file, a pointer
\* bit without a pointer, or nothing.
RewriteKinds == {"same", "newer", "later", "older", "empty", "gone"}
StoredKind(e, kind) ==
    ValueStruct({bitValuePointer},
                CASE kind = "same" ->
                         [Fid |-> RewriteFid, Offset |-> e.offset,
                          Len |-> RewriteRecSize]
                  [] kind = "newer" ->
                         [Fid |-> RewriteFid + 1, Offset |-> lfHeaderSize,
                          Len |-> RewriteRecSize]
                  [] kind = "later" ->
                         [Fid |-> RewriteFid,
                          Offset |-> e.offset + RewriteRecSize,
                          Len |-> RewriteRecSize]
                  [] kind = "older" ->
                         [Fid |-> RewriteFid - 1, Offset |-> lfHeaderSize,
                          Len |-> RewriteRecSize]
                  [] OTHER -> emptyValue,
                0, e.ts)

\* The LSM tree for records recs of the given kinds: a record whose key has
\* the move prefix has its key without the prefix in the tree as well.
RewriteKv(recs, kinds) ==
    LET stored == {i \in DOMAIN recs : kinds[i] # "gone"}
        under == {i \in DOMAIN recs : HasMovePrefix(recs[i].key)}
    IN [k \in {<<recs[i].key, recs[i].ts>> : i \in stored}
              \cup {<<StripMove(recs[i].key), recs[i].ts>> : i \in under} |->
          IF \E i \in stored : k = <<recs[i].key, recs[i].ts>>
          THEN LET i == CHOOSE i \in stored : k = <<recs[i].key, recs[i].ts>>
               IN StoredKind(recs[i], kinds[i])
          ELSE ValueStruct({bitValuePointer}, SomeVP, 0, k[2])]

\* fe that inserts every record again that the LSM tree has in the file.
feCaseAnyOffset(fid, e, vs) ==
    IF discardEntry(e, vs, Db(FALSE)) THEN "discard"
    ELSE IF vs.Value = emptyValue THEN "Empty value"
    ELSE IF vs.Value.Fid > fid THEN "drop"
    ELSE IF vs.Value.Fid = fid THEN "move"
    ELSE "older"

\* rewrite, fe: what becomes of record e of file fid for the value struct
\* vs that db.get has returned.
feCase(fid, e, vs) ==
    IF discardEntry(e, vs, Db(FALSE)) THEN "discard"
    ELSE IF vs.Value = emptyValue THEN "Empty value"
    ELSE IF vs.Value.Fid > fid THEN "drop"
    ELSE IF vs.Value.Offset > e.offset THEN "drop"
    ELSE IF vs.Value.Fid = fid /\ vs.Value.Offset = e.offset THEN "move"
    ELSE "older"

\* The new entry that always gets the move prefix in front of its key.
newEntryPrefixed(e) ==
    [key |-> WithMove(e.key), ts |-> e.ts,
     klen |-> e.klen + badgerMoveLen,
     value |-> e.value, vlen |-> e.vlen, meta |-> {},
     UserMeta |-> e.UserMeta, ExpiresAt |-> e.ExpiresAt]

\* rewrite, fe: the new entry ne for record e.
newEntry(e) ==
    [key |-> IF HasMovePrefix(e.key) THEN e.key ELSE WithMove(e.key),
     ts |-> e.ts,
     klen |-> IF HasMovePrefix(e.key) THEN e.klen ELSE e.klen + badgerMoveLen,
     value |-> e.value, vlen |-> e.vlen, meta |-> {},
     UserMeta |-> e.UserMeta, ExpiresAt |-> e.ExpiresAt]

\* Entry.estimateSize(threshold) (structs.go) plus len(e.Value): a value at
\* or above the threshold counts as a value pointer of 12 bytes.
entrySize(ne) ==
    (IF ne.vlen < opt.ValueThreshold THEN ne.klen + ne.vlen + 2
     ELSE ne.klen + 12 + 2) + ne.vlen

\* db.batchSet(batch): the result, and the LSM tree after it; an accepted
\* batch is stored with pointers into the writable file.
batchSetErr(g, batch) ==
    IF Len(batch) > g.txnMax THEN "ErrTxnTooBig" ELSE "nil"
batchSetKv(kv, batch) ==
    lsmSet(kv, [k \in {<<batch[j].key, batch[j].ts>> : j \in DOMAIN batch} |->
                  ValueStruct({bitValuePointer},
                              [Fid |-> RewriteFid + 1, Offset |-> lfHeaderSize,
                               Len |-> RewriteRecSize],
                              0, k[2])])

\* The call of db.batchSet(batch) as gc records it.
batchSet(g, batch) ==
    IF batchSetErr(g, batch) = "nil"
    THEN [g EXCEPT !.sent = Append(@, batch)]
    ELSE [g EXCEPT !.tooBig = @ + 1]

\* rewrite returns err.
rewriteReturn(g, err) == [g EXCEPT !.pc = "done", !.res = err]

\* One call of fe by iterate, for record gc.k; after the last record
\* rewrite goes on to its final loop.
RewriteFe ==
    /\ gc.pc = "iterate"
    /\ LET e == gc.recs[gc.k]
           vs == lsmGet(lsm.kv, e.key, e.ts)
           looked == [gc EXCEPT !.looked = Append(@, vs), !.k = @ + 1]
           ne == newEntry(e)
           es == entrySize(ne)
           full == \/ Len(gc.wb) + 1 >= opt.maxBatchCount
                   \/ gc.size + es >= opt.maxBatchSize
           flushed == batchSet(looked, gc.wb)
           next(g) == IF g.k > Len(g.recs)
                      THEN [g EXCEPT !.pc = "loop",
                                     !.batchSize = initialBatchSize, !.i = 0]
                      ELSE g
       IN /\ gc' =
                CASE feCase(gc.fid, e, vs) = "Empty value" ->
                         rewriteReturn(looked, "Empty value")
                  [] feCase(gc.fid, e, vs) = "move" /\ full
                        /\ batchSetErr(gc, gc.wb) # "nil" ->
                         rewriteReturn(flushed, batchSetErr(gc, gc.wb))
                  [] feCase(gc.fid, e, vs) = "move" /\ full
                        /\ batchSetErr(gc, gc.wb) = "nil" ->
                         next([flushed EXCEPT !.wb = <<ne>>, !.size = es])
                  [] feCase(gc.fid, e, vs) = "move" /\ ~full ->
                         next([looked EXCEPT !.wb = Append(@, ne),
                                             !.size = @ + es])
                  [] OTHER -> next(looked)
          /\ lsm' = IF feCase(gc.fid, e, vs) = "move" /\ full
                       /\ batchSetErr(gc, gc.wb) = "nil"
                    THEN [lsm EXCEPT !.kv = batchSetKv(@, gc.wb)]
                    ELSE lsm
    /\ UNCHANGED <<diskVars, replayVars, writeVars, readVars, wc>>

\* One turn of the final loop of rewrite over wb.
RewriteLoop ==
    /\ gc.pc = "loop"
    /\ gc.i < Len(gc.wb)
    /\ LET end == IF gc.i + gc.batchSize > Len(gc.wb) THEN Len(gc.wb)
                  ELSE gc.i + gc.batchSize
           batch == SubSeq(gc.wb, gc.i + 1, end)
           called == batchSet(gc, batch)
       IN /\ gc' = IF gc.batchSize = 0
                   THEN rewriteReturn(gc, "ErrNoRewrite")
                   ELSE IF batchSetErr(gc, batch) = "ErrTxnTooBig"
                   THEN [called EXCEPT !.batchSize = @ \div 2]
                   ELSE [called EXCEPT !.i = @ + gc.batchSize]
          /\ lsm' = IF gc.batchSize # 0 /\ batchSetErr(gc, batch) = "nil"
                    THEN [lsm EXCEPT !.kv = batchSetKv(@, batch)]
                    ELSE lsm
    /\ UNCHANGED <<diskVars, replayVars, writeVars, readVars, wc>>

\* rewrite after its final loop: the file is deleted, or left to the last
\* iterator.
RewriteRemove(iterators) ==
    /\ gc.pc = "loop"
    /\ ~(gc.i < Len(gc.wb))
    /\ gc' = [rewriteReturn(gc, "nil") EXCEPT
                !.removed = IF iterators = 0 THEN "deleted" ELSE "queued"]
    /\ UNCHANGED <<diskVars, replayVars, writeVars, readVars, lsm, wc>>

(***************************************************************************)
(* Rewrite specification: one call of rewrite on a file of up to           *)
(* MaxRewriteRecs records, for every combination of what the LSM tree      *)
(* holds for them, with batch limits that are reached or not.              *)
(***************************************************************************)
\* opt.maxBatchCount and opt.maxBatchSize.
RewriteLimits == {<<3, 1000>>, <<100, 100>>, <<100, 1000>>}

InitRewrite ==
    /\ \E limits \in RewriteLimits :
          opt = [ValueThreshold |-> ValueThreshold, maxBatchCount |-> limits[1],
                 maxBatchSize |-> limits[2]]
    /\ disk = FreshDisk /\ lw = FreshWrappers
    /\ vhead = [Fid |-> 0, Offset |-> lfHeaderSize, Len |-> 0]
    /\ op = [pc |-> "done"] /\ replayed = <<>> /\ disk0 = disk
    /\ wr = WriterIdle /\ hist = HistEmpty
    /\ locks = NoLocks /\ rd = [r \in Readers |-> ReaderIdle] /\ bg = BgIdle
    /\ wc = WcIdle
    /\ \E n \in 1..MaxRewriteRecs, moved \in BOOLEAN, txnMax \in 0..MaxRewriteRecs :
          \E kinds \in [1..n -> RewriteKinds] :
             LET recs == [i \in 1..n |-> RewriteRec(i, moved /\ i = 1)]
             IN /\ lsm = [LsmEmpty EXCEPT !.kv = RewriteKv(recs, kinds)]
                /\ gc = [pc |-> "iterate", fid |-> RewriteFid, recs |-> recs,
                         k |-> 1, looked |-> <<>>, wb |-> <<>>, size |-> 0,
                         batchSize |-> 0, i |-> 0, sent |-> <<>>, tooBig |-> 0,
                         txnMax |-> txnMax, res |-> "none", removed |-> "no"]

NextRewrite ==
    \/ RewriteFe
    \/ RewriteLoop
    \/ \E iterators \in 0..1 : RewriteRemove(iterators)

SpecRewrite == InitRewrite /\ [][NextRewrite]_vars


(***************************************************************************)
(* What rewrite hands to db.batchSet                                       *)
(***************************************************************************)
\* The entries of the batches db.batchSet has accepted that come from
\* record i of the file, as pairs of batch and position.
AcceptedFrom(i) ==
    {p \in {<<b, j>> \in (DOMAIN gc.sent) \X (1..MaxRewriteRecs) :
               j \in DOMAIN gc.sent[b]} :
        gc.sent[p[1]][p[2]].key % badgerMove = i}

\* Record i has been looked up, cannot be discarded, and the value pointer
\* of the LSM tree for its key is (f.fid, e.offset).
Authoritative(i) ==
    /\ i \in DOMAIN gc.looked
    /\ ~discardEntry(gc.recs[i], gc.looked[i], Db(FALSE))
    /\ gc.looked[i].Value # emptyValue
    /\ gc.looked[i].Value.Fid = gc.fid
    /\ gc.looked[i].Value.Offset = gc.recs[i].offset

\* C25: db.batchSet accepts a record of the file at most once, and only a
\* record that is not discardable and whose value pointer in the LSM tree
\* is (f.fid, e.offset): a record whose pointer has a larger fid or a larger
\* offset, or is in an older file, is in no batch.  Once the file is deleted
\* or queued for deletion rewrite has returned nil, has looked up every
\* record, and every such record is in exactly one accepted batch.
C25_MovesAuthoritativeOnce ==
    /\ \A i \in DOMAIN gc.recs :
          /\ Cardinality(AcceptedFrom(i)) <= 1
          /\ AcceptedFrom(i) # {} => Authoritative(i)
          /\ gc.removed # "no" /\ Authoritative(i) => AcceptedFrom(i) # {}
    /\ gc.removed # "no" =>
          gc.res = "nil" /\ Len(gc.looked) = Len(gc.recs)

\* A file that is deleted with a record that was moved, one the LSM tree
\* has at a later offset and one it has in an older file.
C25_Witness ==
    /\ gc.removed = "deleted"
    /\ \E i, j, k \in DOMAIN gc.recs :
          /\ Authoritative(i) /\ AcceptedFrom(i) # {}
          /\ ~discardEntry(gc.recs[j], gc.looked[j], Db(FALSE))
          /\ gc.looked[j].Value # emptyValue
          /\ gc.looked[j].Value.Fid = gc.fid
          /\ gc.looked[j].Value.Offset > gc.recs[j].offset
          /\ ~discardEntry(gc.recs[k], gc.looked[k], Db(FALSE))
          /\ gc.looked[k].Value # emptyValue
          /\ gc.looked[k].Value.Fid < gc.fid

\* The entries rewrite has built so far: those of wb and of the accepted
\* batches.
RewriteBuilt ==
    {gc.wb[j] : j \in DOMAIN gc.wb}
       \cup UNION {{gc.sent[b][j] : j \in DOMAIN gc.sent[b]} : b \in DOMAIN gc.sent}

\* C26: every entry rewrite builds has the move prefix in front of its key
\* once, and not twice; without the prefix the key is the key of a record of
\* the file, with or without its own prefix, and the entry has that record's
\* value, user meta and expiry, and no meta bit.
C26_MovedEntryShape ==
    \A ne \in RewriteBuilt :
       /\ HasMovePrefix(ne.key)
       /\ ~HasMovePrefix(StripMove(ne.key))
       /\ \E i \in DOMAIN gc.recs :
             /\ gc.recs[i].key \in {ne.key, StripMove(ne.key)}
             /\ ne.value = gc.recs[i].value
             /\ ne.vlen = gc.recs[i].vlen
             /\ ne.meta = {}
             /\ gc.recs[i].meta # {}
             /\ ne.UserMeta = gc.recs[i].UserMeta
             /\ ne.ExpiresAt = gc.recs[i].ExpiresAt

\* Accepted entries of a record whose key had the move prefix and of one
\* whose key had not.
C26_Witness ==
    \E i, j \in DOMAIN gc.recs :
       /\ HasMovePrefix(gc.recs[i].key) /\ AcceptedFrom(i) # {}
       /\ ~HasMovePrefix(gc.recs[j].key) /\ AcceptedFrom(j) # {}

\* C27: whenever db.batchSet refuses a batch with ErrTxnTooBig, during the
\* iteration or in the final loop, rewrite does not return: it halves its
\* batch size and keeps wb and its place in it; and no entry of wb is
\* skipped or accepted twice.
C27_TooBigHalvesAndRetries ==
    /\ [][gc'.tooBig > gc.tooBig =>
             /\ gc'.pc # "done"
             /\ gc'.batchSize = gc.batchSize \div 2
             /\ gc'.i = gc.i
             /\ gc'.wb = gc.wb]_vars
    /\ [](\A i \in DOMAIN gc.recs : Cardinality(AcceptedFrom(i)) <= 1)
    /\ [](gc.removed # "no" =>
             \A i \in DOMAIN gc.recs : Authoritative(i) => AcceptedFrom(i) # {})


(***************************************************************************)
(* What open does with each WAL file                                       *)
(***************************************************************************)
\* iterate has returned an end offset for file fid.
Iterated(fid) ==
    op.res[fid].err \in {"nil", "ErrTruncateNeeded", "errDeleteVlogFile"}

\* C28: after iterate has returned end offset e for a WAL file, the file is
\* unchanged when e is its size; else replayLog returns ErrTruncateNeeded
\* and the file is unchanged when truncation is not permitted; else, when
\* e <= 20, the file of the largest fid holds its 20-byte header and nothing
\* else, and any other file is reported errDeleteVlogFile and is neither in
\* the file map of the WAL nor on disk; else the file is cut to e bytes and
\* keeps the records that end at or before e.
C28_AfterReplayOfFile ==
    \A fid \in DOMAIN disk0[walFile] :
       LET f0 == disk0[walFile][fid]
           e == op.res[fid].endOffset
           err == op.res[fid].err
       IN Iterated(fid) =>
          IF e = f0.size
          THEN err = "nil" /\ fid \in DOMAIN disk[walFile]
               /\ disk[walFile][fid] = f0
          ELSE IF ~opt.Truncate
          THEN err = "ErrTruncateNeeded" /\ fid \in DOMAIN disk[walFile]
               /\ disk[walFile][fid] = f0
          ELSE IF e <= 20
          THEN IF fid = lw[walFile].maxFid
               THEN err = "nil" /\ fid \in DOMAIN disk[walFile]
                    /\ disk[walFile][fid] = [recs |-> <<>>, size |-> 20]
               ELSE err = "errDeleteVlogFile"
                    /\ fid \notin DOMAIN disk[walFile]
                    /\ fid \notin DOMAIN lw[walFile].filesMap
          ELSE /\ err = "nil" /\ fid \in DOMAIN disk[walFile]
               /\ disk[walFile][fid].size = e
               /\ \E n \in 0..Len(f0.recs) :
                     /\ disk[walFile][fid].recs = SubSeq(f0.recs, 1, n)
                     /\ RecEnd(f0.recs, n) <= e
                     /\ n < Len(f0.recs) => RecEnd(f0.recs, n + 1) > e

\* open has finished: file 0 had records and none of them valid, it was
\* reported for deletion and is gone, and file 1 was left as it was.
C28_Witness ==
    /\ op.pc = "done"
    /\ opt.Truncate
    /\ disk0[walFile][0].recs # <<>>
    /\ op.res[0].err = "errDeleteVlogFile"
    /\ 0 \notin DOMAIN disk[walFile]
    /\ op.res[1].err = "nil"
    /\ op.res[1].endOffset = disk0[walFile][1].size

\* The first record of a file at or after a byte offset, 0 when none is.
FirstAtOrAfter(recs, off) ==
    IF \E i \in 1..Len(recs) : RecOff(recs, i) >= off
    THEN CHOOSE i \in 1..Len(recs) :
            /\ RecOff(recs, i) >= off
            /\ \A j \in 1..(i - 1) : RecOff(recs, j) < off
    ELSE 0

\* Where the replay of file fid starts according to the head that was
\* persisted when the database was opened.
StartAfterHead(fid) ==
    IF fid = op.ptr.Fid THEN op.ptr.Offset + op.ptr.Len ELSE 20

\* C29: replayFn gets the records of the WAL files in increasing order of
\* fid.  A file below the fid of the head is not replayed: replayFn gets
\* none of its records and the file stays as it is.  In any other file
\* replayFn gets no record before the start offset (the end of the record
\* the head points to in the file of the head, 20 in a later file), and the
\* first record at or after the start offset is the first one it gets,
\* whenever that record can be read and is not a commit marker.
C29_ReplayOrderAndStart ==
    /\ \A k, l \in 1..Len(replayed) :
          k < l => replayed[k].fid <= replayed[l].fid
    /\ \A fid \in DOMAIN disk0[walFile] :
          LET f0 == disk0[walFile][fid]
              invs == InvokedFor(fid)
              first == FirstAtOrAfter(f0.recs, StartAfterHead(fid))
          IN IF fid < op.ptr.Fid
             THEN /\ invs = <<>>
                  /\ op.res[fid].err = "none"
                  /\ fid \in DOMAIN disk[walFile]
                  /\ disk[walFile][fid] = f0
             ELSE /\ \A k \in 1..Len(invs) :
                        invs[k].offset >= StartAfterHead(fid)
                  /\ invs # <<>> =>
                        first # 0 /\ invs[1].offset = RecOff(f0.recs, first)
                  /\ (Iterated(fid) /\ first # 0
                        /\ safeReadEntryOk(f0, RecOff(f0.recs, first))
                        /\ ~IsFin(f0.recs[first]))
                     => invs # <<>>

\* The head pointed to the first record of a file: replayFn got the second
\* record first; the file below the head was skipped or the one above it
\* was replayed from its header.
C29_Witness ==
    /\ op.pc = "done"
    /\ op.ptr.Offset = 20 /\ op.ptr.Len > 0
    /\ replayed # <<>>
    /\ replayed[1].fid = op.ptr.Fid
    /\ replayed[1].offset = op.ptr.Offset + op.ptr.Len
    /\ Len(disk0[walFile][op.ptr.Fid].recs) >= 2


(***************************************************************************)
(* The valid end offset of iterate                                         *)
(***************************************************************************)
\* Record i carries neither transaction bit.
IsPlain(r) == bitTxn \notin r.meta /\ bitFinTxn \notin r.meta

\* The first record of the transaction that is open just before record i
\* of recs, when the records from index a on are read: the start of the run
\* of TXN records that ends at i - 1; 0 when no transaction is open.
OpenTxnBefore(recs, a, i) ==
    IF i > a /\ IsTxn(recs[i - 1])
    THEN CHOOSE j \in a..(i - 1) :
            /\ \A k \in j..(i - 1) : IsTxn(recs[k])
            /\ j > a => ~IsTxn(recs[j - 1])
    ELSE 0

LastCommitBefore(recs, a, i) ==
    LET j == OpenTxnBefore(recs, a, i)
        nz == IF j = 0 THEN {} ELSE {k \in j..(i - 1) : recs[k].ts # 0}
    IN IF nz = {} THEN 0
       ELSE recs[CHOOSE k \in nz : \A l \in nz : k <= l].ts

mathMaxUint32 == U32Mod - 1

\* e.Key = y.KeyWithTs(y.ParseKey(e.Key), math.MaxUint32)
KeyWithTs(e, ts) == [e EXCEPT !.ts = ts]

\* countWindow := int(float64(vlog.opt.ValueLogMaxEntries) * 0.01)
countWindow == opt.ValueLogMaxEntries \div 100

\* The file of the records: its size.
SampleSize(recs) == lfHeaderSize + Len(recs) * RewriteRecSize

\* doRunGC returns err, or goes on to rewrite.
sampleReturn(g, res) == [g EXCEPT !.pc = "done", !.res = res]

\* doRunGC, fn: one call by iterate for record g.k.  late: more than 10
\* seconds have passed; readOk: readValueBytes and decodeEntry succeed.
sampleFn(g, late, readOk) ==
    LET e == KeyWithTs(g.recs[g.k], mathMaxUint32)
        esz == RewriteRecSize
        vs == lsmGet(lsm.kv, e.key, e.ts)
        next == [g EXCEPT !.k = @ + 1]
        stop == [g EXCEPT !.pc = "decide"]
        sampled == [next EXCEPT !.total = @ + esz, !.count = @ + 1]
        discarded == [sampled EXCEPT !.discard = @ + esz,
                                     !.counted[g.k] = "discard"]
    IN IF 10 * g.skipped < g.skipFirst
       THEN [next EXCEPT !.skipped = @ + esz]
       ELSE IF g.count > countWindow THEN stop
       ELSE IF 10 * g.total > SampleSize(g.recs) THEN stop
       ELSE IF late THEN stop
       ELSE IF discardEntry(e, vs, Db(FALSE)) THEN discarded
       ELSE IF vs.Value = emptyValue THEN sampleReturn(sampled, "panic")
       ELSE IF vs.Value.Fid > g.fid THEN discarded
       ELSE IF vs.Value.Offset > e.offset THEN discarded
       ELSE IF vs.Value.Fid = g.fid /\ vs.Value.Offset = e.offset
       THEN [sampled EXCEPT !.counted[g.k] = "live"]
       ELSE IF readOk
       THEN sampleReturn(sampled, "This shouldn't happen")
       ELSE [sampled EXCEPT !.pc = "decide"]

\* One call of fn by iterate; after the last record iterate returns.
SampleFn(late, readOk) ==
    /\ gc.pc = "sample"
    /\ gc' = IF gc.k > Len(gc.recs) THEN [gc EXCEPT !.pc = "decide"]
             ELSE sampleFn(gc, late, readOk)
    /\ UNCHANGED <<diskVars, replayVars, writeVars, readVars, lsm, wc>>

\* doRunGC after iterate: too small a sample, or too little to discard for
\* discardRatio = num / den, is ErrNoRewrite; else the file is rewritten.
SampleDecide ==
    /\ gc.pc = "decide"
    /\ gc' = IF \/ /\ gc.count < countWindow
                   /\ 40 * gc.total < 3 * SampleSize(gc.recs)
                \/ gc.ratio[2] * gc.discard < gc.ratio[1] * gc.total
             THEN sampleReturn(gc, "ErrNoRewrite")
             ELSE sampleReturn(gc, "rewrite")
    /\ UNCHANGED <<diskVars, replayVars, writeVars, readVars, lsm, wc>>

(***************************************************************************)
(* Sampling specification: one call of doRunGC on a file of up to          *)
(* MaxRewriteRecs records, for every combination of what the LSM tree      *)
(* holds for them, from every random starting place.                       *)
(***************************************************************************)
\* The timestamps of the records: 1, or math.MaxUint32.
SampleTs == {1, mathMaxUint32}
\* discardRatio as numerator and denominator.
SampleRatios == {<<1, 2>>}

\* The LSM tree with a later version of the key of record 1.
Superseded(kv, recs) ==
    PutKey(kv, <<recs[1].key, recs[1].ts + 1>>,
           ValueStruct({bitValuePointer},
                       [Fid |-> RewriteFid + 1, Offset |-> lfHeaderSize,
                        Len |-> RewriteRecSize], 0, recs[1].ts + 1))

InitSample ==
    /\ \E maxEntries \in {FewEntries, ManyEntries} :
          opt = [ValueThreshold |-> ValueThreshold,
                 ValueLogMaxEntries |-> maxEntries]
    /\ disk = FreshDisk /\ lw = FreshWrappers
    /\ vhead = [Fid |-> 0, Offset |-> lfHeaderSize, Len |-> 0]
    /\ op = [pc |-> "done"] /\ replayed = <<>> /\ disk0 = disk
    /\ wr = WriterIdle /\ hist = HistEmpty
    /\ locks = NoLocks /\ rd = [r \in Readers |-> ReaderIdle] /\ bg = BgIdle
    /\ wc = WcIdle
    /\ \E n \in 1..MaxRewriteRecs, ts \in SampleTs, later \in BOOLEAN,
          ratio \in SampleRatios :
          \E kinds \in [1..n -> RewriteKinds], rnd \in 0..n :
             LET recs == [i \in 1..n |->
                            [RewriteRec(i, FALSE) EXCEPT !.ts = ts]]
                 kv == RewriteKv(recs, kinds)
             IN /\ later => ts < mathMaxUint32
                /\ lsm = [LsmEmpty EXCEPT
                            !.kv = IF later THEN Superseded(kv, recs) ELSE kv]
                \* skipFirstM: rand.Int63n(fi.Size()) - sizeWindow, in tenths
                \* of a byte.
                /\ gc = [pc |-> "sample", fid |-> RewriteFid, recs |-> recs,
                         k |-> 1, skipped |-> 0,
                         skipFirst |-> 10 * (rnd * RewriteRecSize)
                                          - SampleSize(recs),
                         count |-> 0, total |-> 0, discard |-> 0,
                         counted |-> [i \in 1..n |-> "no"],
                         ratio |-> ratio, res |-> "none"]

NextSample ==
    \/ \E late, readOk \in BOOLEAN : SampleFn(late, readOk)
    \/ SampleDecide

SpecSample == InitSample /\ [][NextSample]_vars

\* Record i is sampled while its own timestamp is the latest version of its
\* key in the LSM tree, that version is neither deleted nor expired, and its
\* value pointer is (fid, offset of the record).
LiveInLsm(i) ==
    LET e == gc.recs[i]
        vs == lsmGet(lsm.kv, e.key, mathMaxUint32)
    IN /\ vs.Version = e.ts
       /\ ~discardEntry(e, vs, Db(FALSE))
       /\ vs.Value # emptyValue
       /\ vs.Value.Fid = gc.fid /\ vs.Value.Offset = e.offset

\* C31: a record that fn has sampled, whose own timestamp is the latest
\* version of its key in the LSM tree and whose value pointer there is
\* (fid, offset of the record), is counted as live, and r.discard holds the
\* bytes of the records counted as discardable and no others.
C31_LiveRecordCountedLive ==
    /\ \A i \in DOMAIN gc.recs :
          gc.counted[i] # "no" /\ LiveInLsm(i) => gc.counted[i] = "live"
    /\ gc.discard =
          RewriteRecSize * Cardinality({i \in DOMAIN gc.recs :
                                           gc.counted[i] = "discard"})


(***************************************************************************)
(* Meta specification: a database opened on an empty directory is written *)
(* to in batches whose entries carry a meta bit besides the transaction    *)
(* bit; encodeEntry may return an error.                                   *)
(***************************************************************************)
\* A transaction of two entries, the first with a second meta bit.
MetaRequest(ts) ==
    Request(<<[DataEntry("mid", ts, 1) EXCEPT
                 !.meta = {bitTxn, bitDiscardEarlierVersions}],
              DataEntry("small", ts, 2), CommitEntry(ts)>>)
MetaBatches(ts) == {<<MetaRequest(ts)>>, <<MetaRequest(ts), MetaRequest(ts + 1)>>}

InitMeta ==
    /\ \E size \in {SmallSegment, LargeSegment} :
          opt = Options(TRUE, FALSE, size, ManyEntries, ValueThreshold,
                        MemoryMap, FALSE)
    /\ FreshOpen

NextMeta ==
    \/ \E reqs \in MetaBatches(hist.nextTs) : WriteBegin(reqs)
    \/ WriteRequest
    \/ \E call \in {"encodeWal", "encodeVlog"} : WriteRequestFails(call)
    \/ WriteToDisk
    \/ WriteRotateVlog
    \/ WriteRotateWal

SpecMeta == InitMeta /\ [][NextMeta]_vars

\* The entry of the batch at hand that a record placed in a file was
\* encoded from; the record itself.
EntryOf(p) ==
    LET i == CHOOSE i \in DOMAIN hist.before.reqs :
                hist.before.reqs[i].Entries[1].ts = p.req
    IN hist.before.reqs[i].Entries[p.ent]
RecordOf(ft, p) ==
    disk[ft][p.fid].recs[RecAt(disk[ft][p.fid].recs, p.offset)]
PlacedOfBatch(ft) ==
    {p \in {hist.placed[ft][k] : k \in DOMAIN hist.placed[ft]} :
        \E i \in DOMAIN hist.before.reqs :
           hist.before.reqs[i].Entries[1].ts = p.req}

\* C32: a record of the value log has the meta of its entry without the
\* TXN and FIN_TXN bits, a record of the WAL has the meta of its entry, and
\* the entries of the caller are, while write runs and after it has
\* returned (with an error of encodeEntry as well), what they were when
\* write was called.
C32_MetaInLogsAndCaller ==
    /\ \A p \in PlacedOfBatch(vlogFile) :
          RecordOf(vlogFile, p).meta = EntryOf(p).meta \ {bitTxn, bitFinTxn}
    /\ \A p \in PlacedOfBatch(walFile) :
          RecordOf(walFile, p).meta = EntryOf(p).meta
    /\ wr.reqs # <<>> =>
          \A i \in DOMAIN wr.reqs :
             wr.reqs[i].Entries = hist.before.reqs[i].Entries

\* write has returned the error of encodeEntry for a value log record of
\* its second request; the first request is in both logs, with an entry of
\* two meta bits.
C32_Witness ==
    /\ wr.pc = "idle" /\ wr.err = "encodeEntry"
    /\ \E i \in DOMAIN wr.reqs : wr.reqs[i].head # zeroVP /\ wr.reqs[i].Ptrs = <<>>
    /\ \E p \in PlacedOfBatch(vlogFile) :
          /\ EntryOf(p).meta = {bitTxn, bitDiscardEarlierVersions}
          /\ RecordOf(vlogFile, p).meta = {bitDiscardEarlierVersions}
    /\ \E p \in PlacedOfBatch(walFile) : bitFinTxn \in RecordOf(walFile, p).meta


(***************************************************************************)
(* Rotation specification: a database opened on an empty directory is      *)
(* written to, its files are rotated (a call made by the rotation may      *)
(* fail), and dropAll is called between the writes.                        *)
(***************************************************************************)
InitRotate ==
    /\ \E size \in {SmallSegment, LargeSegment} :
          opt = Options(TRUE, FALSE, size, ManyEntries, ValueThreshold,
                        MemoryMap, FALSE)
    /\ FreshOpen

NextRotate ==
    \/ \E shapes \in SyncBatches : WriteBegin(Batch(shapes, hist.nextTs))
    \/ WriteRequest
    \/ WriteToDisk
    \/ WriteRotateVlog
    \/ WriteRotateWal
    \/ \E ft \in fileTypes, call \in RotateCalls : WriteRotateFails(ft, call)
    \/ DropAllBegin
    \/ \E fid \in bg.todo : DropAllDelete(fid)
    \/ DropAllFinish

SpecRotate == InitRotate /\ [][NextRotate]_vars

\* write is appending to the files wr.cur.
Appending == wr.pc \in {"request", "toDisk", "rotateVlog", "rotateWal"}

\* maxFid, the writable offset and the entry counter of a log wrapper.
Counters(w) == <<w.maxFid, w.writableOffset, w.numEntriesWritten>>

\* The step is a rotation of the files of type ft: a file is added to a
\* file map that was not empty.
RotationOf(ft) ==
    /\ DOMAIN lw[ft].filesMap # {}
    /\ DOMAIN lw'[ft].filesMap \ DOMAIN lw[ft].filesMap # {}

\* What C33 says of every step: a rotation adds exactly the file
\* maxFid + 1, which becomes maxFid, sets the writable offset to 20 and the
\* entry counter to 0 and leaves the other log set as it is; and maxFid
\* never decreases except in dropAll.
RotationStep ==
    \A ft \in fileTypes :
       /\ RotationOf(ft) =>
             /\ DOMAIN lw'[ft].filesMap =
                   DOMAIN lw[ft].filesMap \cup {lw[ft].maxFid + 1}
             /\ Counters(lw'[ft]) = <<lw[ft].maxFid + 1, 20, 0>>
             /\ \A other \in fileTypes \ {ft} :
                   Counters(lw'[other]) = Counters(lw[other])
       /\ lw'[ft].maxFid < lw[ft].maxFid => bg.state = "dropping"

\* C33 as stated: outside dropAll, in each log set maxFid is in the file
\* map and is the largest fid in it, and write appends to that file; every
\* step is as RotationStep has it.
C33_WritableIsMaxFid ==
    /\ [](bg.state = "open" =>
            \A ft \in fileTypes :
               /\ lw[ft].maxFid \in DOMAIN lw[ft].filesMap
               /\ \A fid \in DOMAIN lw[ft].filesMap : fid <= lw[ft].maxFid
               /\ Appending /\ wr.cur[ft] # nilFile =>
                     wr.cur[ft] = lw[ft].maxFid)
    /\ [][RotationStep]_vars

\* C33 amended: as C33, for each log set whose file map is not empty: the
\* file map of the value log is empty, with maxFid 0, until the first
\* record is written to the value log, and again after dropAll.
C33_WritableIsMaxFidOnceCreated ==
    /\ [](bg.state = "open" =>
            \A ft \in fileTypes :
               /\ DOMAIN lw[ft].filesMap # {} =>
                     /\ lw[ft].maxFid \in DOMAIN lw[ft].filesMap
                     /\ \A fid \in DOMAIN lw[ft].filesMap : fid <= lw[ft].maxFid
               /\ DOMAIN lw[ft].filesMap = {} =>
                     ft = vlogFile /\ lw[ft].maxFid = 0
               /\ Appending /\ wr.cur[ft] # nilFile =>
                     wr.cur[ft] = lw[ft].maxFid)
    /\ [][RotationStep]_vars

\* Both log sets have been rotated and write is appending to file 1 of
\* each.
C33_Witness ==
    /\ Appending
    /\ \A ft \in fileTypes :
          /\ DOMAIN lw[ft].filesMap = {0, 1}
          /\ lw[ft].maxFid = 1 /\ wr.cur[ft] = 1


(***************************************************************************)
(* Read-bounds specification: logFile.read is applied to value pointers    *)
(* whose offset and length range over the u32 values around the ends of    *)
(* the file, of the mapping and of the u32 range, in both loading modes.   *)
(***************************************************************************)
ReadAtRecs == <<encodeEntry(DataEntry("mid", 1, 1), lfHeaderSize)>>
ReadAtFile == File(ReadAtRecs, lfHeaderSize + BytesLen(ReadAtRecs))

\* u32 values next to 0, the record, the end of the file, the end of the
\* mapping (2 * ValueLogFileSize) and the end of the u32 range.
ReadAtValues ==
    {0, 1, lfHeaderSize, BytesLen(ReadAtRecs), BytesLen(ReadAtRecs) + 1,
     ReadAtFile.size - 1, ReadAtFile.size, ReadAtFile.size + 1,
     2 * SmallSegment - 1, 2 * SmallSegment,
     U32Mod - ReadAtFile.size, U32Mod - lfHeaderSize, U32Mod - 1}

InitReadAt ==
    /\ \E mode \in {FileIO, MemoryMap} :
          opt = Options(TRUE, FALSE, SmallSegment, ManyEntries, ValueThreshold,
                        mode, FALSE)
    /\ disk = [FreshDisk EXCEPT ![vlogFile] = [fid \in {0} |-> ReadAtFile]]
    /\ lw = FreshWrappers
    /\ vhead = [Fid |-> 0, Offset |-> lfHeaderSize, Len |-> 0]
    /\ op = [pc |-> "done"] /\ replayed = <<>> /\ disk0 = disk
    /\ wr = WriterIdle /\ hist = HistEmpty
    /\ locks = NoLocks /\ rd = [r \in Readers |-> ReaderIdle] /\ bg = BgIdle
    /\ wc = WcIdle /\ lsm = LsmEmpty
    \* The file is mapped to its own size (logFile.init) or, as the writable
    \* file, to 2 * ValueLogFileSize (createLogFile); lf.size is the size of
    \* the file.
    /\ \E offset \in ReadAtValues, len \in ReadAtValues,
          fmapLen \in {ReadAtFile.size, 2 * SmallSegment} :
          gc = [pc |-> "call",
                lf |-> LogFile(0, U32(ReadAtFile.size),
                               IF opt.ValueLogLoadingMode = MemoryMap
                               THEN fmapLen ELSE 0),
                p |-> [Fid |-> 0, Offset |-> offset, Len |-> len],
                res |-> [err |-> "none", buf |-> [kind |-> "other"]]]

\* logFile.read(p, s).
ReadAt ==
    /\ gc.pc = "call"
    /\ gc' = [gc EXCEPT !.pc = "returned",
                        !.res = read(gc.lf, disk[vlogFile][0], gc.p)]
    /\ UNCHANGED <<opt, disk, lw, vhead, op, replayed, disk0, wr, hist, locks,
                   rd, bg, lsm, wc>>

NextReadAt == ReadAt

SpecReadAt == InitReadAt /\ [][NextReadAt]_vars

\* C34: logFile.read of (offset, len) returns data only when offset + len is
\* at most the size of the file, and then the bytes of the file at that
\* range; when offset + len is above the size of the file it fails with EOF.
\* This is so for pairs whose u32 sum wraps and for mappings larger than the
\* file.
C34_ReadWithinFileOrEOF ==
    gc.pc = "returned" =>
        /\ gc.res.err = "nil" =>
              /\ gc.p.Offset + gc.p.Len <= disk[vlogFile][0].size
              /\ gc.res.buf = BytesAt(disk[vlogFile][0], gc.p)
        /\ gc.p.Offset + gc.p.Len > disk[vlogFile][0].size =>
              gc.res.err \in {"EOF", "ErrEOF"}

(***************************************************************************)
(* Lock-order specification: the tasks of the value log run the functions  *)
(* that take logWrapper.filesLock and logFile.lock, one lock call at a     *)
(* time.  A function is the sequence of its lock calls, each                *)
(* <<call, "files", ft, 0>> or <<call, "lf", ft, fid>>; gc[t] is the       *)
(* function task t is in, its position and whether it is inside a call of  *)
(* Lock that waits for the readers (sync.RWMutex: new readers wait too).   *)
(***************************************************************************)
MaxLockFid == 1
LockFids(ft) == IF ft = vlogFile THEN 0..MaxLockFid ELSE {0}

FilesOps(ft, mode) ==
    IF mode = "W" THEN <<<<"Lock", "files", ft, 0>>, <<"Unlock", "files", ft, 0>>>>
    ELSE <<<<"RLock", "files", ft, 0>>, <<"RUnlock", "files", ft, 0>>>>

\* logWrapper.getCurrentFile, pickLog and the head of rewrite.
getCurrentFileOps(ft) == FilesOps(ft, "R")
\* logFile.doneWriting and valueLog.deleteLogFile: lf.lock.Lock(), deferred
\* Unlock.
doneWritingOps(ft, fid) == <<<<"Lock", "lf", ft, fid>>, <<"Unlock", "lf", ft, fid>>>>
deleteLogFileOps(ft, fid) == doneWritingOps(ft, fid)
\* createLogFile: filesLock.Lock() around the update of the file map.
createLogFileOps(ft) == FilesOps(ft, "W")
\* rotateFile: doneWriting, then createLogFile.
rotateFileOps(ft, fid) == doneWritingOps(ft, fid) \o createLogFileOps(ft)

\* sync: the file lock is taken under the shared filesLock, which is then
\* released; the early returns release filesLock only.
syncOps(fid, found) ==
    IF found
    THEN <<<<"RLock", "files", walFile, 0>>, <<"RLock", "lf", walFile, fid>>,
           <<"RUnlock", "files", walFile, 0>>, <<"RUnlock", "lf", walFile, fid>>>>
    ELSE FilesOps(walFile, "R")

\* A getFileRLocked that locks the file before it looks it up in the map.
getFileRLockedOpsLfFirst(fid, found) ==
    <<<<"RLock", "lf", vlogFile, fid>>, <<"RLock", "files", vlogFile, 0>>,
      <<"RUnlock", "files", vlogFile, 0>>>>
\* getFileRLocked: filesLock.RLock(), ret.lock.RLock(), deferred
\* filesLock.RUnlock(); the error returns take no file lock.
getFileRLockedOps(fid, found) ==
    IF found
    THEN <<<<"RLock", "files", vlogFile, 0>>, <<"RLock", "lf", vlogFile, fid>>,
           <<"RUnlock", "files", vlogFile, 0>>>>
    ELSE FilesOps(vlogFile, "R")

\* Read, and readValueBytes with getUnlockCallback in doRunGC: the file lock
\* is released by getUnlockCallback or by the callback it returns.
ReadOps(fid, found) ==
    getFileRLockedOps(fid, found)
    \o (IF found THEN <<<<"RUnlock", "lf", vlogFile, fid>>>> ELSE <<>>)

\* The end of rewrite: the file is taken out of the map or put on the list
\* under filesLock, and deleted after the lock is released.
rewriteRemoveOps(fid, deleteFileNow) ==
    FilesOps(vlogFile, "W")
    \o (IF deleteFileNow THEN deleteLogFileOps(vlogFile, fid) ELSE <<>>)

RECURSIVE DeleteEach(_, _)
DeleteEach(ft, fids) ==
    IF fids = <<>> THEN <<>>
    ELSE deleteLogFileOps(ft, Head(fids)) \o DeleteEach(ft, Tail(fids))

\* decrIteratorCount that brings the count to zero.
decrIteratorCountOps(fids) == FilesOps(vlogFile, "W") \o DeleteEach(vlogFile, fids)

\* walCleaner for one received head: the snapshot under the shared lock,
\* then for a fid the removal under the exclusive lock and deleteLogFile.
walCleanerOps(fids) ==
    FilesOps(walFile, "R")
    \o (IF fids = <<>> THEN <<>>
        ELSE FilesOps(walFile, "W") \o DeleteEach(walFile, fids))

\* dropAll: deleteAll of each log set deletes the files under filesLock;
\* then createLogFile(0, walFile) and the reset of the value log.
deleteAllOps(ft, fids) ==
    <<<<"Lock", "files", ft, 0>>>> \o DeleteEach(ft, fids)
    \o <<<<"Unlock", "files", ft, 0>>>>
dropAllOps(vfids, wfids) ==
    deleteAllOps(vlogFile, vfids) \o deleteAllOps(walFile, wfids)
    \o createLogFileOps(walFile) \o FilesOps(vlogFile, "W")

\* Close: f.lock.Lock() on every file, never released.
RECURSIVE LockEach(_, _)
LockEach(ft, fids) ==
    IF fids = <<>> THEN <<>>
    ELSE <<<<"Lock", "lf", ft, Head(fids)>>>> \o LockEach(ft, Tail(fids))
CloseOps(vfids, wfids) == LockEach(vlogFile, vfids) \o LockEach(walFile, wfids)

\* The fids of a file map that holds the files 0..n-1, in fid order.
FidOrders(ft) == {[i \in 1..n |-> i - 1] : n \in 0..Cardinality(LockFids(ft))}
\* At most this many tasks are inside a function at a time.
MaxInCall == 3

LockTasks == {"writer", "reader", "gc", "iterator", "walCleaner", "dropAll", "Close"}

\* The functions each task calls.
Calls(t) ==
    CASE t = "writer" ->
           {getCurrentFileOps(ft) : ft \in fileTypes}
           \cup UNION {{rotateFileOps(ft, fid) : fid \in LockFids(ft)} : ft \in fileTypes}
           \cup {syncOps(fid, found) : fid \in LockFids(walFile), found \in BOOLEAN}
      [] t = "reader" ->
           {ReadOps(fid, found) : fid \in LockFids(vlogFile), found \in BOOLEAN}
      [] t = "gc" ->
           {getCurrentFileOps(vlogFile)}
           \cup {ReadOps(fid, found) : fid \in LockFids(vlogFile), found \in BOOLEAN}
           \cup {rewriteRemoveOps(fid, now) : fid \in LockFids(vlogFile), now \in BOOLEAN}
      [] t = "iterator" ->
           {decrIteratorCountOps(fids) : fids \in FidOrders(vlogFile)}
      [] t = "walCleaner" ->
           {walCleanerOps(fids) : fids \in FidOrders(walFile)}
      [] t = "dropAll" ->
           {dropAllOps(vfids, wfids) :
               vfids \in FidOrders(vlogFile), wfids \in FidOrders(walFile)}
      [] OTHER ->
           {CloseOps(vfids, wfids) :
               vfids \in FidOrders(vlogFile), wfids \in FidOrders(walFile)} \ {<<>>}

LockTaskIdle == [ops |-> <<>>, pc |-> 1, waiting |-> FALSE]
InCall(t) == gc[t].pc <= Len(gc[t].ops)
NextOp(t) == gc[t].ops[gc[t].pc]

\* The holders of the lock a call names, as <<task, mode>>.
HoldersOf(o) ==
    IF o[2] = "files" THEN locks.files[o[3]]
    ELSE {<<h[3], h[4]>> : h \in Holders(o[3], o[4])}
\* The tasks inside Lock() on the lock a call names.
WaitingFor(o) ==
    {u \in LockTasks :
        /\ InCall(u) /\ gc[u].waiting
        /\ NextOp(u)[2] = o[2] /\ NextOp(u)[3] = o[3] /\ NextOp(u)[4] = o[4]}
\* The tasks that keep task t from returning from its lock call.
Blockers(t) ==
    IF ~InCall(t) THEN {}
    ELSE LET o == NextOp(t)
         IN CASE o[1] = "Lock" -> {h[1] : h \in HoldersOf(o)}
              [] o[1] = "RLock" ->
                   {h[1] : h \in {x \in HoldersOf(o) : x[2] = "W"}}
                   \cup (WaitingFor(o) \ {t})
              [] OTHER -> {}

Hold(o, t, mode) ==
    IF o[2] = "files"
    THEN [locks EXCEPT !.files[o[3]] = @ \cup {<<t, mode>>}]
    ELSE [locks EXCEPT !.lf = @ \cup {<<o[3], o[4], t, mode>>}]
Release(o, t) ==
    IF o[2] = "files"
    THEN [locks EXCEPT !.files[o[3]] = {h \in @ : h[1] # t}]
    ELSE [locks EXCEPT !.lf = {h \in @ : ~(h[1] = o[3] /\ h[2] = o[4] /\ h[3] = t)}]

\* The task has returned from the lock call; a task other than Close that
\* has made the last call of the function is ready for the next function.
Advance(t) ==
    IF gc[t].pc = Len(gc[t].ops) /\ t # "Close"
    THEN [gc EXCEPT ![t] = LockTaskIdle]
    ELSE [gc EXCEPT ![t].pc = @ + 1, ![t].waiting = FALSE]

LockFrame == UNCHANGED <<opt, disk, lw, vhead, op, replayed, disk0, wr, hist,
                         rd, bg, lsm, wc>>

LockCall(t, ops) ==
    /\ gc[t].ops = <<>>
    /\ Cardinality({u \in LockTasks : gc[u].ops # <<>>}) < MaxInCall
    /\ gc' = [gc EXCEPT ![t].ops = ops]
    /\ UNCHANGED locks /\ LockFrame

\* Lock() and RLock() return.
LockAcquire(t) ==
    /\ InCall(t) /\ NextOp(t)[1] \in {"Lock", "RLock"}
    /\ Blockers(t) = {}
    /\ locks' = Hold(NextOp(t), t, IF NextOp(t)[1] = "Lock" THEN "W" ELSE "R")
    /\ gc' = Advance(t)
    /\ LockFrame

\* Lock() finds readers: it holds off new readers and waits.
LockWait(t) ==
    /\ InCall(t) /\ NextOp(t)[1] = "Lock" /\ ~gc[t].waiting
    /\ \E h \in HoldersOf(NextOp(t)) : h[2] = "R"
    /\ gc' = [gc EXCEPT ![t].waiting = TRUE]
    /\ UNCHANGED locks /\ LockFrame

LockRelease(t) ==
    /\ InCall(t) /\ NextOp(t)[1] \in {"Unlock", "RUnlock"}
    /\ locks' = Release(NextOp(t), t)
    /\ gc' = Advance(t)
    /\ LockFrame

InitLocks ==
    /\ opt = Options(TRUE, FALSE, SmallSegment, ManyEntries, ValueThreshold,
                     MemoryMap, FALSE)
    /\ disk = FreshDisk /\ lw = FreshWrappers
    /\ vhead = [Fid |-> 0, Offset |-> lfHeaderSize, Len |-> 0]
    /\ op = [pc |-> "done"] /\ replayed = <<>> /\ disk0 = disk
    /\ wr = WriterIdle /\ hist = HistEmpty
    /\ locks = NoLocks /\ rd = [r \in Readers |-> ReaderIdle] /\ bg = BgIdle
    /\ wc = WcIdle /\ lsm = LsmEmpty
    /\ gc = [t \in LockTasks |-> LockTaskIdle]

NextLocks ==
    \/ \E t \in LockTasks : \E ops \in Calls(t) : LockCall(t, ops)
    \/ \E t \in LockTasks : LockAcquire(t)
    \/ \E t \in LockTasks : LockWait(t)
    \/ \E t \in LockTasks : LockRelease(t)

SpecLocks == InitLocks /\ [][NextLocks]_vars

\* The file locks task t holds.
HoldsLf(t) == {h \in locks.lf : h[3] = t}
\* A set of tasks each of which waits for a task of the set.
Deadlocked(S) == S # {} /\ \A t \in S : Blockers(t) \cap S # {}

\* C35: no task calls Lock or RLock of a filesLock while it holds the lock
\* of a log file, and no set of tasks among the writer, the readers, GC,
\* deferred deletion, the WAL cleaner and dropAll wait for one another on
\* these locks.
C35_FilesLockBeforeFileLock ==
    /\ \A t \in LockTasks :
          (InCall(t) /\ HoldsLf(t) # {})
          => ~(NextOp(t)[1] \in {"Lock", "RLock"} /\ NextOp(t)[2] = "files")
    /\ \A S \in SUBSET (LockTasks \ {"Close"}) : ~Deadlocked(S)

\* A reader holds the shared lock of a file it took under filesLock, while
\* dropAll holds filesLock and waits inside Lock() of that file.
C35_Witness ==
    /\ HoldsLf("reader") # {}
    /\ <<"dropAll", "W">> \in locks.files[vlogFile]
    /\ gc["dropAll"].waiting
    /\ "reader" \in Blockers("dropAll")



(***************************************************************************)
(* Read-paths specification: a database opened on an empty directory is   *)
(* written to while readers call Read with the pointers write returned and *)
(* with pointers to the same records whose length is too short for the     *)
(* key and value or reaches beyond the file; the checksum is verified or   *)
(* not, and decryption may fail.                                           *)
(***************************************************************************)
\* A length that covers the header and the key of the record of e only.
HeaderAndKey(e) == HeaderLen(e.klen, e.vlen, 0) + e.klen

ReadPathPointers ==
    {x.vp : x \in Returned}
    \cup {[x.vp EXCEPT !.Len = HeaderAndKey(x.e)] : x \in Returned}
    \cup {[x.vp EXCEPT !.Len = maxVlogFileSize - x.vp.Offset] : x \in Returned}

\* Read with the file read-locked, when lf.encryptionEnabled() and decryptKV
\* returns an error: the bytes were read and the checksum, if verified, was
\* right; Read returns the error with the handle of getUnlockCallback.
ReadDecryptFails(r) ==
    /\ rd[r].pc = "locked"
    /\ LET vp == rd[r].vp
           held == <<vlogFile, vp.Fid, r, "R">>
           res == read(LfObj(vp.Fid), disk[vlogFile][vp.Fid], vp)
           cb == getUnlockCallback(vp.Fid)
       IN /\ res.err = "nil"
          /\ ~(opt.VerifyValueChecksum
                /\ (res.buf.kind # "record" \/ ~res.buf.rec.crcOk))
          /\ rd' = [rd EXCEPT ![r] = [@ EXCEPT !.pc = "returned"]
                                     @@ [err |-> "decryptKV", cb |-> cb,
                                         value |-> "nil"]]
          /\ locks' = IF cb THEN locks ELSE [locks EXCEPT !.lf = @ \ {held}]
    /\ UNCHANGED <<diskVars, replayVars, writeVars, bg, gcVars>>

InitReadPaths ==
    /\ \E sz \in {<<SmallSegment, ManyEntries>>, <<LargeSegment, FewEntries>>},
          mode \in {FileIO, MemoryMap}, verify \in BOOLEAN :
          opt = Options(TRUE, FALSE, sz[1], sz[2], ValueThreshold, mode, verify)
    /\ FreshOpen

NextReadPaths ==
    \/ \E shapes \in ReadBatches : WriteBegin(Batch(shapes, hist.nextTs))
    \/ WriteRequest
    \/ WriteToDisk
    \/ WriteRotateVlog
    \/ WriteRotateWal
    \/ \E r \in Readers, vp \in ReadPathPointers : ReadBegin(r, vp)
    \/ \E r \in Readers : ReadRLock(r)
    \/ \E r \in Readers : ReadBytes(r)
    \/ \E r \in Readers : ReadDecryptFails(r)
    \/ \E r \in Readers : ReadDone(r)

SpecReadPaths == InitReadPaths /\ [][NextReadPaths]_vars

\* C36: when Read has returned after taking the shared lock of the file,
\* whatever the outcome (success, EOF of the file read, checksum mismatch,
\* invalid key or value length), the lock has been released or the caller
\* holds a non-nil unlock handle that releases it.
C36_LockReleasedOrHandleReturned ==
    \A r \in Readers :
        (/\ rd[r].pc = "returned"
         /\ <<vlogFile, rd[r].vp.Fid, r, "R">> \in locks.lf)
        => rd[r].cb


(***************************************************************************)
(* Deferred-deletion specification: a database opened on an empty         *)
(* directory is written to while iterators come and go, GC rewrites        *)
(* finish and dropAll runs, with or without iterators open.                *)
(***************************************************************************)
InitDefer ==
    /\ opt = Options(TRUE, FALSE, SmallSegment, ManyEntries, ValueThreshold,
                     FileIO, FALSE)
    /\ FreshOpen

NextDefer ==
    \/ \E shapes \in ReadBatches : WriteBegin(Batch(shapes, hist.nextTs))
    \/ WriteRequest
    \/ WriteToDisk
    \/ WriteRotateVlog
    \/ WriteRotateWal
    \/ IterOpen
    \/ IterClose
    \/ IterDeleteFiles
    \/ \E fid \in DOMAIN lw[vlogFile].filesMap : RewriteDone(fid)
    \/ \E fid \in bg.deleting : DeleteDetached(fid)
    \/ DropAllBeginPending
    \/ \E fid \in bg.todo : DropAllDelete(fid)
    \/ DropAllFinish

SpecDefer == InitDefer /\ [][NextDefer]_vars

\* C37: the list of files to be deleted has no duplicates; a fid in it that
\* has a file in the file map refers to a file rewrite has finished with
\* and is not among the fids GC picks from; and a file handed to
\* deleteLogFile by rewrite or by decrIteratorCount has been rewritten.
C37_ListedFilesWereRewritten ==
    LET list == lw[vlogFile].filesToBeDeleted
    IN /\ \A i, j \in DOMAIN list : list[i] = list[j] => i = j
       /\ \A fid \in SeqRange(list) \cap DOMAIN lw[vlogFile].filesMap :
             /\ fid \in bg.rewritten
             /\ fid \notin SeqRange(sortedFids(lw[vlogFile]))
       /\ bg.deleting \subseteq bg.rewritten

(***************************************************************************)
(* WAL cleaner and dropAll specification: the WAL cleaner specification    *)
(* with dropAll running between the writes.  dropAll runs while the        *)
(* cleaner has deleted no file yet and is not between taking a file out of *)
(* the map and deleting it,                                                *)
(* and the cleaner is followed up to the point where it would take the     *)
(* writable WAL file out of the map.                                       *)
(***************************************************************************)
NextWalDrop ==
    \/ \E shapes \in ReadBatches : WriteBegin(Batch(shapes, hist.nextTs))
    \/ WriteRequest
    \/ WriteToDisk
    \/ WriteRotateVlog
    \/ WriteRotateWal
    \/ PersistHead
    \/ WcReceive
    \/ /\ bg.state = "open"
       /\ wc.fids # <<>> => Head(wc.fids) # lw[walFile].maxFid
       /\ WcTake
    \/ WcDelete
    \/ wc.pc # "delete" /\ wc.log = <<>> /\ DropAllBegin
    \/ \E fid \in bg.todo : DropAllDelete(fid)
    \* dropBefore waits while delChan is full
    \/ Len(wc.delChan) < delChanSize /\ DropAllFinish

SpecWalDrop == InitWal /\ [][NextWalDrop]_vars

\* C38: the assertions of the WAL cleaner hold (a received head fid is at
\* most the max fid of the WAL, a fid of the snapshot is in the file map when
\* the cleaner goes to remove it), and while the cleaner is in its loop every
\* fid of its snapshot below the head is still in the file map of the WAL.
C38_CleanerAssertionsHold ==
    /\ wc.pc # "panic"
    /\ wc.pc \in {"loop", "delete"} =>
          \A i \in DOMAIN wc.fids :
              (wc.fids[i] < wc.hFid /\ ~(wc.pc = "delete" /\ i = 1))
              => wc.fids[i] \in DOMAIN lw[walFile].filesMap


(***************************************************************************)
(* deleteMoveKeysFor: one call for file RewriteFid on an LSM tree that     *)
(* holds up to MaxMoveKeys keys with the move prefix, with db.batchSet     *)
(* refusing the batches above a transaction limit or failing.              *)
(***************************************************************************)
MaxMoveKeys == 3
\* The batch size deleteMoveKeysFor starts with.
deleteBatchSize == 10240

\* What the LSM tree holds at a move key: a pointer into the file, a
\* pointer into another file, or a value without pointer bit.
MoveKinds == {"same", "other", "inline"}
MoveStored(kind) ==
    CASE kind = "same" ->
           ValueStruct({bitValuePointer},
                       [Fid |-> RewriteFid, Offset |-> lfHeaderSize,
                        Len |-> RewriteRecSize], 0, 1)
      [] kind = "other" ->
           ValueStruct({bitValuePointer},
                       [Fid |-> RewriteFid + 1, Offset |-> lfHeaderSize,
                        Len |-> RewriteRecSize], 0, 1)
      [] OTHER -> ValueStruct({}, BytesValue(<<1>>), 0, 1)

\* The tombstones db.batchSet stores for a batch.
Tombstones(kv, batch) ==
    lsmSet(kv, [k \in {<<batch[j].key, batch[j].ts>> : j \in DOMAIN batch} |->
                  ValueStruct({bitDelete}, BytesValue(<<>>), 0, k[2])])

\* db.View with the iteration over the move keys; db.View may fail.
DeleteMoveView(viewErr) ==
    /\ gc.pc = "view"
    /\ gc' = IF viewErr THEN [gc EXCEPT !.pc = "done", !.res = "error"]
             ELSE [gc EXCEPT !.pc = "loop", !.result = deleteEntries(gc.fid),
                             !.batchSize = deleteBatchSize, !.i = 0]
    /\ UNCHANGED <<diskVars, replayVars, writeVars, readVars, lsm, wc>>

\* One turn of the loop over result: db.batchSet fails, refuses the batch
\* with ErrTxnTooBig, or accepts it.
DeleteMoveLoop(fails) ==
    /\ gc.pc = "loop"
    /\ gc.i < Len(gc.result)
    /\ LET end == IF gc.i + gc.batchSize > Len(gc.result) THEN Len(gc.result)
                  ELSE gc.i + gc.batchSize
           batch == SubSeq(gc.result, gc.i + 1, end)
           tooBig == Len(batch) > gc.txnMax
       IN /\ gc' = IF fails THEN [gc EXCEPT !.pc = "done", !.res = "error"]
                   ELSE IF tooBig
                   THEN [gc EXCEPT !.batchSize = @ \div 2, !.tooBig = @ + 1]
                   ELSE [gc EXCEPT !.i = @ + gc.batchSize,
                                   !.sent = @ \o batch]
          /\ lsm' = IF ~fails /\ ~tooBig
                    THEN [lsm EXCEPT !.kv = Tombstones(@, batch)]
                    ELSE lsm
    /\ UNCHANGED <<diskVars, replayVars, writeVars, readVars, wc>>

\* The loop is over: "Move keys deletion done."
DeleteMoveReturn ==
    /\ gc.pc = "loop"
    /\ ~(gc.i < Len(gc.result))
    /\ gc' = [gc EXCEPT !.pc = "done", !.res = "nil"]
    /\ UNCHANGED <<diskVars, replayVars, writeVars, readVars, lsm, wc>>

InitDeleteMove ==
    /\ opt = [ValueThreshold |-> ValueThreshold]
    /\ disk = FreshDisk /\ lw = FreshWrappers
    /\ vhead = [Fid |-> 0, Offset |-> lfHeaderSize, Len |-> 0]
    /\ op = [pc |-> "done"] /\ replayed = <<>> /\ disk0 = disk
    /\ wr = WriterIdle /\ hist = HistEmpty
    /\ locks = NoLocks /\ rd = [r \in Readers |-> ReaderIdle] /\ bg = BgIdle
    /\ wc = WcIdle
    /\ \E n \in 0..MaxMoveKeys, txnMax \in 0..MaxMoveKeys :
          \E kinds \in [1..n -> MoveKinds] :
             /\ lsm = [LsmEmpty EXCEPT
                         !.kv = [k \in {<<WithMove(i), 1>> : i \in 1..n} |->
                                   MoveStored(kinds[StripMove(k[1])])]]
             /\ gc = [pc |-> "view", fid |-> RewriteFid, result |-> <<>>,
                      batchSize |-> 0, i |-> 0, sent |-> <<>>, tooBig |-> 0,
                      txnMax |-> txnMax, res |-> "none",
                      invalid |-> {<<WithMove(i), 1>> :
                                      i \in {j \in 1..n : kinds[j] = "same"}}]

NextDeleteMove ==
    \/ \E viewErr \in BOOLEAN : DeleteMoveView(viewErr)
    \/ \E fails \in BOOLEAN : DeleteMoveLoop(fails)
    \/ DeleteMoveReturn

\* The goroutine that runs deleteMoveKeysFor keeps running; db.View and
\* db.batchSet need not fail.
SpecDeleteMove ==
    /\ InitDeleteMove /\ [][NextDeleteMove]_vars
    /\ WF_vars(DeleteMoveView(FALSE))
    /\ WF_vars(DeleteMoveLoop(FALSE))
    /\ WF_vars(DeleteMoveReturn)

\* C39: deleteMoveKeysFor returns, whatever the move keys and the outcomes
\* of db.batchSet; and when it has returned nil, a tombstone has been
\* submitted for each move key whose pointer has the fid, once, and for no
\* other key.
C39_DeleteMoveKeysTerminates ==
    /\ <>(gc.pc = "done")
    /\ [](gc.pc = "done" /\ gc.res = "nil" =>
             /\ {<<gc.sent[j].key, gc.sent[j].ts>> : j \in DOMAIN gc.sent}
                   = gc.invalid
             /\ Len(gc.sent) = Cardinality(gc.invalid)
             /\ \A j \in DOMAIN gc.sent : gc.sent[j].meta = {bitDelete})

(***************************************************************************)
(* GC attempts that end without a rewrite: the GC specification, with a    *)
(* doRunGC that can also fail before it has decided anything.              *)
(***************************************************************************)
\* doRunGC returns an error before rewrite: lf.fd.Stat() or the iteration
\* over the sample has failed.  runGC goes on to the next file.
GcDoRunGCFails(g) ==
    /\ gc.task[g].pc = "doRunGC"
    /\ LET t == gc.task[g]
       IN /\ ~(t.i > 1 /\ t.files[t.i] = t.files[1])
          /\ gc' = [gcNext(g, "error") EXCEPT
                      !.stats = doRunGCDefer(@, t.files[t.i], "error")]
    /\ UNCHANGED <<diskVars, replayVars, writeVars, readVars, lsm, wc>>

NextGCAttempt ==
    \/ NextGC
    \/ \E g \in GcTasks : GcDoRunGCFails(g)

SpecGCAttempt == InitGC /\ [][NextGCAttempt]_vars

\* Task g takes the step in which its call of doRunGC ends without having
\* gone on to rewrite.
EndsWithoutRewrite(g) ==
    /\ gc.task[g].pc = "doRunGC"
    /\ gc'.task[g] # gc.task[g]
    /\ gc'.task[g].pc # "rewrite"

\* C40: a call of doRunGC that ends without a rewrite (ErrNoRewrite, or an
\* error before rewrite) leaves the map of the value log files, the list of
\* the files to be deleted, the files on disk and the discard statistics as
\* they are and hands nothing to db.batchSet; and the entry of a file goes
\* out of the discard statistics only in the step of a call whose rewrite
\* of that file has returned nil.
C40_NoRewriteChangesNothing ==
    /\ [][\A g \in GcTasks :
             EndsWithoutRewrite(g) =>
                /\ lw'[vlogFile].filesMap = lw[vlogFile].filesMap
                /\ lw'[vlogFile].filesToBeDeleted = lw[vlogFile].filesToBeDeleted
                /\ disk'[vlogFile] = disk[vlogFile]
                /\ gc'.stats = gc.stats
                /\ hist'.nwrites = hist.nwrites
                /\ lsm' = lsm
                /\ gc'.task[g].pc \notin {"batchSet", "written"}]_vars
    /\ [][\A fid \in DOMAIN gc.stats :
             fid \notin DOMAIN gc'.stats =>
                \E g \in GcTasks : /\ gc.task[g].pc = "removed"
                                   /\ gc.task[g].fid = fid]_vars

\* A call of runGC has tried the file with the largest discard, doRunGC has
\* ended without a rewrite, and the file has its entry in the statistics.
C40_Witness ==
    \E g \in GcTasks :
       /\ gc.task[g].pc = "doRunGC"
       /\ gc.task[g].i = 2
       /\ gc.task[g].res \in {"ErrNoRewrite", "error"}
       /\ gc.task[g].files[1] \in DOMAIN gc.stats
       /\ gc.task[g].files[1] \in DOMAIN lw[vlogFile].filesMap

====
